---------------------------- MODULE Spec2Model ----------------------------
(***************************************************************************)
(* A model of the storage-engine core of qdbc: the tuple lock manager      *)
(* (wait-die two-phase locking), the write-ahead log manager with its      *)
(* background flusher, the extendible hash table, the LRU replacer and     *)
(* the B+ tree index.  Every subsystem has its own variables, its own      *)
(* initial predicate and its own specification; a specification leaves     *)
(* the variables of the other subsystems at their idle values.             *)
(***************************************************************************)
EXTENDS Integers, Sequences, FiniteSets, TLC

(***************************************************************************)
(* Bounds of the model.                                                    *)
(***************************************************************************)
\* number of transactions; the transaction id is the index, lower = older
MaxTxn == 4
\* number of record identifiers
MaxRid == 1
\* number of lock-manager API calls issued in one behaviour
MaxLockCalls == 6
\* capacity of the log buffer and largest record, in units of a record header
LOG_BUFFER_SIZE == 3
MaxRecordSize == 2
\* number of AppendLogRecord calls and of outside TriggerFlush calls
MaxAppends == 2
MaxTriggers == 1
\* number of threads that append log records
WalThreads == 2
\* hash table: largest bucket_size, number of calls, number of threads, the
\* values stored, and the directory depth past which doubling exhausts memory
MaxBucketSize == 2
MaxHashCalls == 3
HashThreads == 2
MaxVal == 2
MaxGlobalDepth == 3
\* B+ tree: largest key, largest max_size of a node, number of calls, and the
\* number of steps after which an iteration is taken not to end
MaxTreeKey == 4
MaxTreeSize == 4
MaxTreeCalls == 5
ScanFuel == 12
\* LRU replacer: number of calls
MaxLruCalls == 4

VARIABLES
    \* ---- lock manager (src/src/concurrency/lock_manager.cpp) ----
    strict_2PL_,        \* LockManager::strict_2PL_
    ndebug,             \* TRUE when the build compiles assert() away (NDEBUG)
    record_lock_table,  \* RID -> NoList or the WaitList the table references
    txnState,           \* Transaction::state_ of every transaction
    shared_lock_set,    \* Transaction::GetSharedLockSet()
    exclusive_lock_set, \* Transaction::GetExclusiveLockSet()
    pc,                 \* where every transaction's thread stands
    curRid,             \* the RID of the call a thread is inside
    future,             \* value of the promise of the thread's WaitItem
    orphan,             \* the WaitList the thread references left the table
    ret,                \* what the call that returned last returned
    lockCalls,          \* number of API calls issued so far
    crashed,            \* the process was aborted (failed assert, fault)
    \* ---- log manager (src/src/logging/log_manager.cpp) ----
    flush_thread_on_,   \* LogManager::flush_thread_on_
    next_lsn_,          \* LogManager::next_lsn_
    persistent_lsn_,    \* LogManager::persistent_lsn_
    log_buffer,         \* the records in log_buffer_ (log_buffer_size_ bytes)
    flush_buffer,       \* the records in flush_buffer_ (flush_buffer_size_ bytes)
    current_lsn,        \* BackgroundFsync's local current_lsn
    flPc,               \* where the flush thread stands
    cvNotified,         \* cv_ was notified while the flush thread waits on it
    append_latch_,      \* the thread that holds append_latch_, 0 if free
    appPc,              \* where the holder of append_latch_ stands
    appRec,             \* the record the holder of append_latch_ appends
    walCalls,           \* number of AppendLogRecord calls issued so far
    walTriggers,        \* number of outside TriggerFlush calls so far
    assigned,           \* history: the LSNs assigned, in order
    returned,           \* history: the LSNs AppendLogRecord returned
    written,            \* history: the records handed to completed WriteLog calls
    swapReturned,       \* history: `returned' when the running cycle swapped
    cycleDone,          \* history: a flush cycle has completed
    stopPc,             \* where the thread inside StopFlushThread is
    flushCall,          \* the thread that calls TriggerFlush and then
                        \* WaitUntilBgTaskFinish: where it is, and the LSN
                        \* of the last record appended when it began
    \* ---- extendible hash table (src/unnamed/part_001) ----
    gloable_depth_,     \* ExtendibleHash::gloable_depth_
    buckets_,           \* ExtendibleHash::buckets_: slot i is buckets_[i + 1]
    bucketTab,          \* the Bucket objects allocated so far, by identity
    bucket_size_,       \* ExtendibleHash::bucket_size_
    bucket_number,      \* ExtendibleHash::bucket_number
    hPc,                \* where every thread stands in its call
    hOp,                \* the operation a thread executes
    hKey,               \* its key argument
    hVal,               \* its value argument
    hBucket,            \* its local bucket_ptr
    hHeld,              \* the bucket whose latch its unique_lock holds, 0 if none
    hashRef,            \* history: the map the completed calls define
    hashOk,             \* history: every Find and Remove returned as hashRef says
    hashThrew,          \* history: an Insert ended with an exception
    hashCalls,          \* number of calls issued so far
    \* ---- B+ tree (src/unnamed/part_002, src/src/page) ----
    max_size,           \* BPlusTreePage::max_size_, the same in every node
    pages,              \* the tree pages allocated so far; page p is pages[p]
    root_page_id_,      \* BPlusTree::root_page_id_
    tOp,                \* the last call: its operation,
    tKey,               \* its key,
    tRet,               \* what it returned,
    tDup,               \* and whether the key had been inserted before it
    treeRef,            \* history: the map the successful calls define
    treeCalls,          \* number of calls so far
    \* ---- LRU replacer (src/unnamed/part_000) ----
    queue,              \* LRUReplacer::queue, front first
    lruPc,              \* where the caller stands in its call
    lruOp,              \* the operation it executes
    lruVal,             \* the value it works on
    lruRet,             \* what the last call returned
    lruOrder,           \* history: the live values, least recently inserted first
    lruCalls            \* number of calls so far

\* the build and the process
buildVars == <<ndebug, crashed>>

lockVars == <<strict_2PL_, record_lock_table, txnState, shared_lock_set,
              exclusive_lock_set, pc, curRid, future, orphan, ret, lockCalls>>

walVars == <<flush_thread_on_, next_lsn_, persistent_lsn_, log_buffer,
             flush_buffer, current_lsn, flPc, cvNotified, append_latch_,
             appPc, appRec, walCalls, walTriggers, assigned, returned,
             written, swapReturned, cycleDone, flushCall, stopPc>>

hashVars == <<gloable_depth_, buckets_, bucketTab, bucket_size_, bucket_number,
              hPc, hOp, hKey, hVal, hBucket, hHeld, hashRef, hashOk, hashThrew,
              hashCalls>>

treeVars == <<max_size, pages, root_page_id_, tOp, tKey, tRet, tDup, treeRef,
              treeCalls>>

lruVars == <<queue, lruPc, lruOp, lruVal, lruRet, lruOrder, lruCalls>>

vars == <<buildVars, lockVars, walVars, hashVars, treeVars, lruVars>>

(***************************************************************************)
(* Sequence helpers.                                                       *)
(***************************************************************************)
Range(s) == {s[i] : i \in DOMAIN s}

Last(s) == s[Len(s)]

Front(s) == SubSeq(s, 1, Len(s) - 1)

\* std::list::erase of the first element equal to x (std::find + erase)
EraseFirst(s, x) ==
    LET i == CHOOSE j \in DOMAIN s : s[j] = x /\ \A k \in 1..(j - 1) : s[k] # x
    IN  SubSeq(s, 1, i - 1) \o SubSeq(s, i + 1, Len(s))

(***************************************************************************)
(*                              LOCK MANAGER                               *)
(***************************************************************************)
Txns == 0..(MaxTxn - 1)

RIDs == 1..MaxRid

NoList == [present |-> FALSE]

\* WaitList::WaitList(txn, target): the granted list holds txn
WaitList(txn, target) ==
    [present |-> TRUE, state |-> target, granted |-> <<txn>>, wait_list |-> <<>>]

\* WaitList::WaitItem(txn, ws); its promise is future[txn]
WaitItem(txn, ws) == [transaction |-> txn, target_state |-> ws]

InitLock ==
    /\ strict_2PL_ \in BOOLEAN
    /\ record_lock_table = [r \in RIDs |-> NoList]
    /\ txnState = [t \in Txns |-> "GROWING"]
    /\ shared_lock_set = [t \in Txns |-> {}]
    /\ exclusive_lock_set = [t \in Txns |-> {}]
    /\ pc = [t \in Txns |-> "idle"]
    /\ curRid = [t \in Txns |-> 0]
    /\ future = [t \in Txns |-> "none"]
    /\ orphan = [t \in Txns |-> FALSE]
    /\ ret = "none"
    /\ lockCalls = 0

\* the lock manager while another component is exercised
IdleLock == InitLock /\ ~strict_2PL_

\* a thread may issue a new call
CanCall(t) == ~crashed /\ pc[t] = "idle" /\ lockCalls < MaxLockCalls

\* the call returns v to its caller
Return(t, v) ==
    /\ pc' = [pc EXCEPT ![t] = "idle"]
    /\ ret' = v
    /\ curRid' = [curRid EXCEPT ![t] = 0]

\* isValidToAcquireLock leaves a SHRINKING transaction as it is
InvalidToAcquire_mut(t) == txnState[t] # "GROWING" /\ UNCHANGED txnState

\* isValidToAcquireLock fails: the state it leaves the transaction in
InvalidToAcquire(t) ==
    /\ txnState[t] # "GROWING"
    /\ txnState' = [txnState EXCEPT
                       ![t] = IF @ = "SHRINKING" THEN "ABORTED" ELSE @]

\* txn enqueues WaitItem(txn, ws) on the wait list of rid and blocks on the
\* future of its promise, releasing record_map_latch
Enqueue(t, rid, ws, waitPc) ==
    /\ record_lock_table' = [record_lock_table EXCEPT
           ![rid].wait_list = Append(@, WaitItem(t, ws))]
    /\ pc' = [pc EXCEPT ![t] = waitPc]
    /\ curRid' = [curRid EXCEPT ![t] = rid]
    /\ future' = [future EXCEPT ![t] = "none"]
    /\ UNCHANGED <<ret, orphan>>

WaitPcs == {"waitShared", "waitExclusive", "upgradeWait"}

(***************************************************************************)
(* LockManager::Unlock, lines 143-194.  The outcome is computed as a       *)
(* record: the new values of the state Unlock writes and its result        *)
(* ("true", "false", "exception" when promise::set_value throws on a       *)
(* promise that is already satisfied, "crash" when an assert aborts).      *)
(***************************************************************************)
UnlockSame(t, res) ==
    [table |-> record_lock_table, tstate |-> txnState,
     sset |-> shared_lock_set, xset |-> exclusive_lock_set,
     fut |-> future, orph |-> orphan, result |-> res]

\* lines 186-192: complete with false every remaining waiter younger than
\* the woken one, in list order; stops where set_value throws
RECURSIVE WakeYounger(_, _, _, _)
WakeYounger(items, i, wake_txn_id, fut) ==
    IF i > Len(items) THEN [fut |-> fut, threw |-> FALSE]
    ELSE IF items[i].transaction > wake_txn_id
         THEN IF fut[items[i].transaction] # "none"
              THEN [fut |-> fut, threw |-> TRUE]
              ELSE WakeYounger(items, i + 1, wake_txn_id,
                               [fut EXCEPT ![items[i].transaction] = "false"])
         ELSE WakeYounger(items, i + 1, wake_txn_id, fut)

\* lines 164-168: the erase from the lock set sits inside assert()
UnlockEraseSet(set, t, rid) ==
    IF ndebug THEN set ELSE [set EXCEPT ![t] = @ \ {rid}]

\* Unlock leaves the state of the transaction alone
UnlockNewState_mut(t) == txnState

\* lines 169-171
UnlockNewState(t) ==
    IF ~strict_2PL_ /\ txnState[t] = "GROWING"
    THEN [txnState EXCEPT ![t] = "SHRINKING"]
    ELSE txnState

\* lines 181-185: the waiter Unlock hands the lock to
UnlockPickWaiter(wait_list) == Len(wait_list)

\* Unlock goes ahead in any state of the transaction
UnlockAllowed_mut(t) == TRUE

\* lines 144-149: in strict mode only after commit or abort
UnlockAllowed(t) == strict_2PL_ => txnState[t] \in {"COMMITTED", "ABORTED"}

UnlockOutcome(t, rid) ==
    LET wl == record_lock_table[rid] IN
    IF ~UnlockAllowed(t)
    THEN UnlockSame(t, "false")
    ELSE IF ~wl.present \/ t \notin Range(wl.granted)
    THEN UnlockSame(t, IF ndebug THEN "false" ELSE "crash")
    ELSE
    LET granted1 == EraseFirst(wl.granted, t)
        isX == wl.state = "EXCLUSIVE"
        held == IF isX THEN rid \in exclusive_lock_set[t]
                       ELSE rid \in shared_lock_set[t]
        sset1 == IF isX THEN shared_lock_set
                        ELSE UnlockEraseSet(shared_lock_set, t, rid)
        xset1 == IF isX THEN UnlockEraseSet(exclusive_lock_set, t, rid)
                        ELSE exclusive_lock_set
        tstate1 == UnlockNewState(t)
        base == [table |-> [record_lock_table EXCEPT ![rid].granted = granted1],
                 tstate |-> tstate1, sset |-> sset1, xset |-> xset1,
                 fut |-> future, orph |-> orphan, result |-> "true"]
    IN
    IF ~ndebug /\ ~held
    THEN [base EXCEPT !.tstate = txnState, !.result = "crash"]
    ELSE IF granted1 # <<>>
    THEN IF ~ndebug /\ wl.state # "SHARED"
         THEN [base EXCEPT !.result = "crash"]
         ELSE base
    ELSE IF wl.wait_list = <<>>
    THEN [base EXCEPT
            !.table = [record_lock_table EXCEPT ![rid] = NoList],
            !.orph = [u \in Txns |->
                        IF pc[u] \in WaitPcs /\ curRid[u] = rid
                        THEN TRUE ELSE orphan[u]]]
    ELSE
    LET k == UnlockPickWaiter(wl.wait_list)
        back == wl.wait_list[k]
        wake_txn_id == back.transaction
        rest == SubSeq(wl.wait_list, 1, k - 1) \o
                SubSeq(wl.wait_list, k + 1, Len(wl.wait_list))
    IN
    IF future[wake_txn_id] # "none"
    THEN [base EXCEPT !.result = "exception"]
    ELSE
    LET woke == WakeYounger(rest, 1, wake_txn_id,
                            [future EXCEPT ![wake_txn_id] = "true"])
    IN  [base EXCEPT
           !.table = [record_lock_table EXCEPT
                         ![rid].granted = granted1,
                         ![rid].state = back.target_state,
                         ![rid].wait_list = rest],
           !.fut = woke.fut,
           !.result = IF woke.threw THEN "exception" ELSE "true"]

\* the state Unlock leaves behind
UnlockApply(o) ==
    /\ record_lock_table' = o.table
    /\ txnState' = o.tstate
    /\ shared_lock_set' = o.sset
    /\ exclusive_lock_set' = o.xset
    /\ future' = o.fut
    /\ orphan' = o.orph
    /\ crashed' = (o.result = "crash")

\* Unlock(txn, rid), called on a lock the transaction believes it holds
Unlock(t, rid) ==
    /\ CanCall(t)
    /\ rid \in shared_lock_set[t] \cup exclusive_lock_set[t]
    /\ LET o == UnlockOutcome(t, rid) IN
         /\ UnlockApply(o)
         /\ Return(t, o.result)
    /\ lockCalls' = lockCalls + 1
    /\ UNCHANGED <<strict_2PL_, ndebug>>

(***************************************************************************)
(* LockManager::LockShared, lines 21-71.                                   *)
(***************************************************************************)
\* the process stops inside a call of t
Crash(t) ==
    /\ crashed' = TRUE
    /\ UNCHANGED <<pc, ret, curRid>>

\* lines 43-49: what the wait-die test decides against the holder h
SharedDecision(t, h) ==
    IF t > h THEN "die" ELSE IF t = h THEN "held" ELSE "wait"

\* lines 41-63, the wait list is EXCLUSIVE: die, succeed re-entrantly, or
\* enqueue and block, as decided
LockSharedAct(t, rid, decision) ==
    \/ /\ decision = "die"
       /\ txnState' = [txnState EXCEPT ![t] = "ABORTED"]
       /\ Return(t, "false")
       /\ UNCHANGED <<record_lock_table, shared_lock_set, future, orphan, crashed>>
    \/ /\ decision = "held"
       /\ Return(t, "true")
       /\ UNCHANGED <<record_lock_table, txnState, shared_lock_set, future,
                      orphan, crashed>>
    \/ /\ decision = "wait"
       /\ Enqueue(t, rid, "SHARED", "waitShared")
       /\ UNCHANGED <<txnState, shared_lock_set, crashed>>

LockShared(t, rid) ==
    /\ CanCall(t)
    /\ lockCalls' = lockCalls + 1
    /\ UNCHANGED <<strict_2PL_, ndebug, exclusive_lock_set>>
    /\ LET wl == record_lock_table[rid] IN
       \/ /\ InvalidToAcquire(t)
          /\ Return(t, "false")
          /\ UNCHANGED <<record_lock_table, shared_lock_set, future, orphan, crashed>>
       \/ /\ txnState[t] = "GROWING"
          /\ ~wl.present
          /\ record_lock_table' =
                 [record_lock_table EXCEPT ![rid] = WaitList(t, "SHARED")]
          /\ shared_lock_set' = [shared_lock_set EXCEPT ![t] = @ \cup {rid}]
          /\ Return(t, "true")
          /\ UNCHANGED <<txnState, future, orphan, crashed>>
       \/ /\ txnState[t] = "GROWING"
          /\ wl.present
          /\ wl.state = "EXCLUSIVE"
          /\ \/ \* line 42: assert(granted.size() == 1) fails
                /\ Len(wl.granted) # 1
                /\ ~ndebug
                /\ Crash(t)
                /\ UNCHANGED <<record_lock_table, txnState, shared_lock_set,
                               future, orphan>>
             \/ /\ wl.granted # <<>>
                /\ ndebug \/ Len(wl.granted) = 1
                /\ LockSharedAct(t, rid, SharedDecision(t, Head(wl.granted)))
             \/ \* granted.front() of an empty list without the assert:
                \* undefined behaviour, any branch or a fault
                /\ wl.granted = <<>>
                /\ ndebug
                /\ \/ \E d \in {"die", "held", "wait"} : LockSharedAct(t, rid, d)
                   \/ /\ Crash(t)
                      /\ UNCHANGED <<record_lock_table, txnState, shared_lock_set,
                                     future, orphan>>
       \/ /\ txnState[t] = "GROWING"
          /\ wl.present
          /\ wl.state = "SHARED"
          /\ IF rid \in shared_lock_set[t]
             THEN UNCHANGED <<record_lock_table, shared_lock_set>>
             ELSE /\ record_lock_table' =
                        [record_lock_table EXCEPT ![rid].granted = Append(@, t)]
                  /\ shared_lock_set' = [shared_lock_set EXCEPT ![t] = @ \cup {rid}]
          /\ Return(t, "true")
          /\ UNCHANGED <<txnState, future, orphan, crashed>>

\* lines 55-62: the waiter is woken, takes record_map_latch again and, if
\* its future holds true, adds itself to the granted list of the WaitList
\* it references (which may have left the table meanwhile)
GrantAfterWait(t, rid) ==
    IF orphan[t] THEN record_lock_table
    ELSE [record_lock_table EXCEPT ![rid].granted = Append(@, t)]

\* the future of a granted waiter is consumed; the WaitItem of a waiter
\* completed with false stays in the wait list with its promise satisfied
AfterWait(t) ==
    /\ future' = [future EXCEPT ![t] = IF @ = "true" THEN "none" ELSE @]
    /\ orphan' = [orphan EXCEPT ![t] = FALSE]

ResumeShared(t) ==
    /\ ~crashed
    /\ pc[t] = "waitShared"
    /\ future[t] # "none"
    /\ IF future[t] = "false"
       THEN /\ txnState' = [txnState EXCEPT ![t] = "ABORTED"]
            /\ Return(t, "false")
            /\ UNCHANGED <<record_lock_table, shared_lock_set>>
       ELSE /\ shared_lock_set' = [shared_lock_set EXCEPT ![t] = @ \cup {curRid[t]}]
            /\ record_lock_table' = GrantAfterWait(t, curRid[t])
            /\ Return(t, "true")
            /\ UNCHANGED txnState
    /\ AfterWait(t)
    /\ UNCHANGED <<strict_2PL_, ndebug, exclusive_lock_set, lockCalls, crashed>>

(***************************************************************************)
(* LockManager::LockExclusive, lines 73-117.                               *)
(***************************************************************************)
\* the requester dies when it is older than the holder
ExclusiveDies_mut(t, g) == t < g

\* lines 94 and 98-99: the tests of the scan of the granted list
ExclusiveDies(t, g) == t > g

ExclusiveHeld(t, g, state) == state = "EXCLUSIVE" /\ t = g

\* lines 92-103: the first holder at which the scan returns, 0 if none
ExclusiveScan(t, wl) ==
    LET hits == {i \in DOMAIN wl.granted :
                    \/ ExclusiveDies(t, wl.granted[i])
                    \/ ExclusiveHeld(t, wl.granted[i], wl.state)}
    IN  IF hits = {} THEN 0 ELSE CHOOSE i \in hits : \A j \in hits : i <= j

\* the body of LockExclusive; waitPc is where the thread blocks
LockExclusiveBody(t, rid, waitPc) ==
    LET wl == record_lock_table[rid] IN
    \/ /\ InvalidToAcquire(t)
       /\ Return(t, "false")
       /\ UNCHANGED <<record_lock_table, exclusive_lock_set, future, orphan, crashed>>
    \/ /\ txnState[t] = "GROWING"
       /\ ~wl.present
       /\ record_lock_table' =
              [record_lock_table EXCEPT ![rid] = WaitList(t, "EXCLUSIVE")]
       /\ exclusive_lock_set' = [exclusive_lock_set EXCEPT ![t] = @ \cup {rid}]
       /\ Return(t, "true")
       /\ UNCHANGED <<txnState, future, orphan, crashed>>
    \/ /\ txnState[t] = "GROWING"
       /\ wl.present
       /\ LET i == ExclusiveScan(t, wl) IN
          IF i = 0
          THEN /\ Enqueue(t, rid, "EXCLUSIVE", waitPc)
               /\ UNCHANGED <<txnState, exclusive_lock_set, crashed>>
          ELSE IF ExclusiveDies(t, wl.granted[i])
          THEN /\ txnState' = [txnState EXCEPT ![t] = "ABORTED"]
               /\ Return(t, "false")
               /\ UNCHANGED <<record_lock_table, exclusive_lock_set, future,
                              orphan, crashed>>
          ELSE IF ~ndebug /\ Len(wl.granted) # 1
          THEN \* line 100: assert(granted.size() == 1) fails
               /\ Crash(t)
               /\ UNCHANGED <<record_lock_table, txnState, exclusive_lock_set,
                              future, orphan>>
          ELSE /\ Return(t, "true")
               /\ UNCHANGED <<record_lock_table, txnState, exclusive_lock_set,
                              future, orphan, crashed>>

LockExclusive(t, rid) ==
    /\ CanCall(t)
    /\ lockCalls' = lockCalls + 1
    /\ LockExclusiveBody(t, rid, "waitExclusive")
    /\ UNCHANGED <<strict_2PL_, ndebug, shared_lock_set>>

\* lines 109-116
ResumeExclusive(t) ==
    /\ ~crashed
    /\ pc[t] \in {"waitExclusive", "upgradeWait"}
    /\ future[t] # "none"
    /\ IF future[t] = "false"
       THEN /\ txnState' = [txnState EXCEPT ![t] = "ABORTED"]
            /\ Return(t, "false")
            /\ UNCHANGED <<record_lock_table, exclusive_lock_set>>
       ELSE /\ record_lock_table' = GrantAfterWait(t, curRid[t])
            /\ exclusive_lock_set' = [exclusive_lock_set EXCEPT ![t] = @ \cup {curRid[t]}]
            /\ Return(t, "true")
            /\ UNCHANGED txnState
    /\ AfterWait(t)
    /\ UNCHANGED <<strict_2PL_, ndebug, shared_lock_set, lockCalls, crashed>>

(***************************************************************************)
(* LockManager::LockUpgrade, lines 119-141: the checks under the latch,    *)
(* then Unlock and LockExclusive as two separate calls.                    *)
(***************************************************************************)
LockUpgrade(t, rid) ==
    /\ CanCall(t)
    /\ lockCalls' = lockCalls + 1
    /\ UNCHANGED <<strict_2PL_, ndebug, record_lock_table, shared_lock_set,
                   exclusive_lock_set, future, orphan>>
    /\ LET wl == record_lock_table[rid] IN
       \/ /\ InvalidToAcquire(t)
          /\ Return(t, "false")
          /\ UNCHANGED crashed
       \/ /\ txnState[t] = "GROWING"
          /\ UNCHANGED txnState
          /\ IF ~wl.present \/ t \notin Range(wl.granted)
             THEN Return(t, "false") /\ UNCHANGED crashed
             ELSE IF wl.state = "EXCLUSIVE"
             THEN IF ~ndebug /\ Len(wl.granted) # 1
                  THEN Crash(t)
                  ELSE Return(t, "true") /\ UNCHANGED crashed
             ELSE /\ pc' = [pc EXCEPT ![t] = "upgradeUnlock"]
                  /\ curRid' = [curRid EXCEPT ![t] = rid]
                  /\ UNCHANGED <<ret, crashed>>

\* line 140, left operand: Unlock(txn, rid)
UpgradeUnlock(t) ==
    /\ ~crashed
    /\ pc[t] = "upgradeUnlock"
    /\ LET o == UnlockOutcome(t, curRid[t]) IN
         /\ UnlockApply(o)
         /\ IF o.result = "true"
            THEN pc' = [pc EXCEPT ![t] = "upgradeLock"] /\ UNCHANGED <<ret, curRid>>
            ELSE Return(t, o.result)
    /\ UNCHANGED <<strict_2PL_, ndebug, lockCalls>>

\* line 140, right operand: LockExclusive(txn, rid)
UpgradeLock(t) ==
    /\ ~crashed
    /\ pc[t] = "upgradeLock"
    /\ LockExclusiveBody(t, curRid[t], "upgradeWait")
    /\ UNCHANGED <<strict_2PL_, ndebug, shared_lock_set, lockCalls>>

(***************************************************************************)
(* The transaction manager commits a transaction (Transaction::SetState);  *)
(* its locks are then released by Unlock calls.                            *)
(***************************************************************************)
Commit(t) ==
    /\ CanCall(t)
    /\ txnState[t] \in {"GROWING", "SHRINKING"}
    /\ txnState' = [txnState EXCEPT ![t] = "COMMITTED"]
    /\ lockCalls' = lockCalls + 1
    /\ UNCHANGED <<strict_2PL_, ndebug, record_lock_table, shared_lock_set,
                   exclusive_lock_set, pc, curRid, future, orphan, ret, crashed>>


(***************************************************************************)
(*                               LOG MANAGER                               *)
(* A buffer is the sequence of the records serialized into it; its size    *)
(* field is the sum of their sizes.  latch_ is held only inside a step;    *)
(* append_latch_ is held for a whole AppendLogRecord call.                 *)
(***************************************************************************)
INVALID_LSN == -1

WalThreadIds == 1..WalThreads

\* the record types AppendLogRecord serializes, and those it does not
HandledTypes ==
    {"INSERT", "MARKDELETE", "APPLYDELETE", "ROLLBACKDELETE", "UPDATE", "NEWPAGE"}

RecordTypes == HandledTypes \cup {"BEGIN", "COMMIT", "ABORT"}

\* the record a blocked appender carries: its size, and whether lines
\* 127-148 have a branch for its type
NoRec == [size |-> 0, handled |-> FALSE]

\* a serialized record; intact is FALSE when its bytes are not what
\* AppendLogRecord wrote
LogRecord(lsn, size, intact) == [lsn |-> lsn, size |-> size, intact |-> intact]

\* what a header read from clobbered bytes may hold as LSN
GarbageLsns == {INVALID_LSN, 0}

RECURSIVE BufSize(_)
BufSize(buf) == IF buf = <<>> THEN 0 ELSE Head(buf).size + BufSize(Tail(buf))

log_buffer_size_ == BufSize(log_buffer)

flush_buffer_size_ == BufSize(flush_buffer)

\* LogManager::lastLsn, lines 79-89
RECURSIVE lastLsn(_, _)
lastLsn(buff, cur) ==
    IF buff = <<>> THEN cur ELSE lastLsn(Tail(buff), Head(buff).lsn)

\* the LogManager after construction; no flush thread runs yet
InitWal ==
    /\ flush_thread_on_ = FALSE
    /\ next_lsn_ = 0
    /\ persistent_lsn_ = INVALID_LSN
    /\ log_buffer = <<>>
    /\ flush_buffer = <<>>
    /\ current_lsn = INVALID_LSN
    /\ flPc = "off"
    /\ cvNotified = FALSE
    /\ append_latch_ = 0
    /\ appPc = "idle"
    /\ appRec = NoRec
    /\ walCalls = 0
    /\ walTriggers = 0
    /\ assigned = <<>>
    /\ returned = {}
    /\ written = <<>>
    /\ swapReturned = {}
    /\ cycleDone = FALSE
    /\ flushCall = [pc |-> "idle", lsn |-> INVALID_LSN]
    /\ stopPc = "idle"

\* the process stops inside the log manager
WalCrash ==
    /\ crashed' = TRUE
    /\ UNCHANGED <<next_lsn_, log_buffer, append_latch_, appPc, appRec,
                   assigned, returned>>

\* line 123: log_record.lsn_ = next_lsn_++
NextLsnAfter(lsn) == lsn + 1

\* lines 123-150 with the record serialized as rec
AppendStore(rec) ==
    /\ next_lsn_' = NextLsnAfter(next_lsn_)
    /\ assigned' = Append(assigned, next_lsn_)
    /\ log_buffer' = Append(log_buffer, rec)
    /\ returned' = returned \cup {next_lsn_}
    /\ append_latch_' = 0
    /\ appPc' = "idle"
    /\ appRec' = NoRec
    /\ UNCHANGED crashed

\* lines 123-150: assign the LSN, serialize at log_buffer_size_, return.  A
\* record of a type without a branch meets assert(false); a record that
\* ends past LOG_BUFFER_SIZE is written out of the bounds of log_buffer_:
\* the process faults, or the bytes stay as written, or they are
\* overwritten before the flush thread hands them to WriteLog.
AppendBody(size, handled) ==
    \/ /\ ~handled
       /\ ~ndebug
       /\ WalCrash
    \/ /\ handled \/ ndebug
       /\ log_buffer_size_ + size <= LOG_BUFFER_SIZE
       /\ AppendStore(LogRecord(next_lsn_, size, TRUE))
    \/ /\ handled \/ ndebug
       /\ log_buffer_size_ + size > LOG_BUFFER_SIZE
       /\ \/ WalCrash
          \/ AppendStore(LogRecord(next_lsn_, size, TRUE))
          \/ \E g \in GarbageLsns : AppendStore(LogRecord(g, size, FALSE))

\* LogManager::AppendLogRecord, lines 111-151, up to its return or to the
\* release of latch_ at line 117; records are appended while logging is
\* enabled (ENABLE_LOGGING, line 18)
AppendLogRecord(t, size, type) ==
    /\ ~crashed
    /\ flush_thread_on_
    /\ append_latch_ = 0
    /\ walCalls < MaxAppends
    /\ walCalls' = walCalls + 1
    /\ IF log_buffer_size_ + size > LOG_BUFFER_SIZE
       THEN /\ append_latch_' = t
            /\ appPc' = "trigger"
            /\ appRec' = [size |-> size, handled |-> type \in HandledTypes]
            /\ UNCHANGED <<next_lsn_, log_buffer, assigned, returned, crashed>>
       ELSE AppendBody(size, type \in HandledTypes)
    /\ UNCHANGED <<ndebug, flush_thread_on_, persistent_lsn_, flush_buffer,
                   current_lsn, flPc, cvNotified, walTriggers, written,
                   swapReturned, cycleDone>>

\* LogManager::TriggerFlush, lines 73-75: cv_.notify_one() reaches the
\* flush thread only while it waits on cv_
Notify == cvNotified \/ flPc = "wait"

\* line 118
AppendTrigger ==
    /\ ~crashed
    /\ appPc = "trigger"
    /\ cvNotified' = Notify
    /\ appPc' = "waitBg"
    /\ UNCHANGED <<buildVars, flush_thread_on_, next_lsn_, persistent_lsn_,
                   log_buffer, flush_buffer, current_lsn, flPc, append_latch_,
                   appRec, walCalls, walTriggers, assigned, returned, written,
                   swapReturned, cycleDone>>

\* LogManager::WaitUntilBgTaskFinish, lines 66-71, called at line 119
AppendWaitBg ==
    /\ ~crashed
    /\ appPc = "waitBg"
    /\ flush_buffer_size_ = 0
    /\ appPc' = "relock"
    /\ UNCHANGED <<buildVars, flush_thread_on_, next_lsn_, persistent_lsn_,
                   log_buffer, flush_buffer, current_lsn, flPc, cvNotified,
                   append_latch_, appRec, walCalls, walTriggers, assigned,
                   returned, written, swapReturned, cycleDone>>

\* lines 120-150: latch_ again, assert(log_buffer_size_ == 0), the append
AppendRelock ==
    /\ ~crashed
    /\ appPc = "relock"
    /\ IF log_buffer_size_ # 0 /\ ~ndebug
       THEN WalCrash
       ELSE AppendBody(appRec.size, appRec.handled)
    /\ UNCHANGED <<ndebug, flush_thread_on_, persistent_lsn_, flush_buffer,
                   current_lsn, flPc, cvNotified, walCalls, walTriggers,
                   written, swapReturned, cycleDone>>

\* TriggerFlush called from outside the log manager (buffer pool)
TriggerFlush ==
    /\ ~crashed
    /\ walTriggers < MaxTriggers
    /\ walTriggers' = walTriggers + 1
    /\ cvNotified' = Notify
    /\ UNCHANGED <<buildVars, flush_thread_on_, next_lsn_, persistent_lsn_,
                   log_buffer, flush_buffer, current_lsn, flPc, append_latch_,
                   appPc, appRec, walCalls, assigned, returned, written,
                   swapReturned, cycleDone>>

\* LogManager::RunFlushThread, lines 15-22
RunFlushThread ==
    /\ ~crashed
    /\ stopPc = "idle"
    /\ ~flush_thread_on_
    /\ flush_thread_on_' = TRUE
    /\ flPc' = "top"
    /\ UNCHANGED <<buildVars, next_lsn_, persistent_lsn_, log_buffer,
                   flush_buffer, current_lsn, cvNotified, append_latch_, appPc,
                   appRec, walCalls, walTriggers, assigned, returned, written,
                   swapReturned, cycleDone>>

\* line 25: the flush thread tests flush_thread_on_, latch_ not held, and
\* leaves BackgroundFsync when it is cleared
FlusherTest ==
    /\ ~crashed
    /\ flPc = "top"
    /\ flPc' = IF flush_thread_on_ THEN "latch" ELSE "exited"
    /\ UNCHANGED <<buildVars, flush_thread_on_, next_lsn_, persistent_lsn_,
                   log_buffer, flush_buffer, current_lsn, cvNotified,
                   append_latch_, appPc, appRec, walCalls, walTriggers,
                   assigned, returned, written, swapReturned, cycleDone>>

\* lines 26-28: the log buffer is empty, the flush thread waits on cv_
FlusherWait ==
    /\ ~crashed
    /\ flPc = "latch"
    /\ log_buffer_size_ < 1
    /\ flPc' = "wait"
    /\ cvNotified' = FALSE
    /\ UNCHANGED <<buildVars, flush_thread_on_, next_lsn_, persistent_lsn_,
                   log_buffer, flush_buffer, current_lsn, append_latch_, appPc,
                   appRec, walCalls, walTriggers, assigned, returned, written,
                   swapReturned, cycleDone>>

\* a flusher that captures an LSN one short of line 37's
CurrentLsnAtSwap_mut == next_lsn_ - 2

\* line 37
CurrentLsnAtSwap == next_lsn_ - 1

\* lines 27-33: wait_for returns notified, or it times out and the buffer
\* holds a record or flush_thread_on_ is cleared
WaitEnds == cvNotified \/ log_buffer_size_ >= 1 \/ ~flush_thread_on_

\* lines 27-38: the wait loop ends and the buffers are swapped under latch_
FlusherSwap ==
    /\ ~crashed
    /\ \/ flPc = "latch" /\ log_buffer_size_ >= 1
       \/ flPc = "wait" /\ WaitEnds
    /\ flush_buffer' = log_buffer
    /\ log_buffer' = <<>>
    /\ current_lsn' = CurrentLsnAtSwap
    /\ swapReturned' = returned
    /\ flPc' = "write"
    /\ cvNotified' = FALSE
    /\ UNCHANGED <<buildVars, flush_thread_on_, next_lsn_, persistent_lsn_,
                   append_latch_, appPc, appRec, walCalls, walTriggers,
                   assigned, returned, written, cycleDone>>

\* line 39: disk_manager_->WriteLog(flush_buffer_, flush_buffer_size_)
\* completes, latch_ not held
FlusherWrite ==
    /\ ~crashed
    /\ flPc = "write"
    /\ written' = written \o flush_buffer
    /\ flPc' = "finish"
    /\ UNCHANGED <<buildVars, flush_thread_on_, next_lsn_, persistent_lsn_,
                   log_buffer, flush_buffer, current_lsn, cvNotified,
                   append_latch_, appPc, appRec, walCalls, walTriggers,
                   assigned, returned, swapReturned, cycleDone>>

\* lines 40-44: the assert, flush_buffer_size_ = 0, persistent_lsn_, notify
FlusherFinish ==
    /\ ~crashed
    /\ flPc = "finish"
    /\ IF ~ndebug /\ lastLsn(flush_buffer, INVALID_LSN) # current_lsn
       THEN /\ crashed' = TRUE
            /\ UNCHANGED <<flush_buffer, persistent_lsn_, flPc, cycleDone>>
       ELSE /\ flush_buffer' = <<>>
            /\ persistent_lsn_' = current_lsn
            /\ flPc' = "top"
            /\ cycleDone' = TRUE
            /\ UNCHANGED crashed
    /\ UNCHANGED <<ndebug, flush_thread_on_, next_lsn_, log_buffer, current_lsn,
                   cvNotified, append_latch_, appPc, appRec, walCalls,
                   walTriggers, assigned, returned, written, swapReturned>>

\* a thread of the buffer pool or of a test calls TriggerFlush; it then
\* calls WaitUntilBgTaskFinish
CallerTrigger ==
    /\ flushCall.pc # "waitBg"
    /\ TriggerFlush
    /\ flushCall' = [pc |-> "waitBg", lsn |-> next_lsn_ - 1]

\* LogManager::WaitUntilBgTaskFinish, lines 66-71, called by that thread:
\* it returns when it finds flush_buffer_size_ = 0 under latch_
WaitUntilBgTaskFinish ==
    /\ ~crashed
    /\ flushCall.pc = "waitBg"
    /\ flush_buffer_size_ = 0
    /\ flushCall' = [flushCall EXCEPT !.pc = "done"]
    /\ UNCHANGED <<buildVars, flush_thread_on_, next_lsn_, persistent_lsn_,
                   log_buffer, flush_buffer, current_lsn, flPc, cvNotified,
                   append_latch_, appPc, appRec, walCalls, walTriggers,
                   assigned, returned, written, swapReturned, cycleDone>>

\* LogManager::StopFlushThread, lines 52-56: the flag is cleared under
\* latch_.  RunFlushThread and StopFlushThread are called by one thread.
StopFlushThread ==
    /\ ~crashed
    /\ stopPc = "idle"
    /\ flush_thread_on_
    /\ flush_thread_on_' = FALSE
    /\ stopPc' = "trigger"
    /\ UNCHANGED <<buildVars, next_lsn_, persistent_lsn_, log_buffer,
                   flush_buffer, current_lsn, flPc, cvNotified, append_latch_,
                   appPc, appRec, walCalls, walTriggers, assigned, returned,
                   written, swapReturned, cycleDone, flushCall>>

\* line 58: TriggerFlush()
StopTrigger ==
    /\ ~crashed
    /\ stopPc = "trigger"
    /\ cvNotified' = Notify
    /\ stopPc' = "join"
    /\ UNCHANGED <<buildVars, flush_thread_on_, next_lsn_, persistent_lsn_,
                   log_buffer, flush_buffer, current_lsn, flPc, append_latch_,
                   appPc, appRec, walCalls, walTriggers, assigned, returned,
                   written, swapReturned, cycleDone, flushCall>>

\* lines 60-62: flush_thread_->join() returns once the flush thread has
\* left BackgroundFsync; the thread object is deleted
StopJoin ==
    /\ ~crashed
    /\ stopPc = "join"
    /\ flPc = "exited"
    /\ flPc' = "off"
    /\ stopPc' = "idle"
    /\ UNCHANGED <<buildVars, flush_thread_on_, next_lsn_, persistent_lsn_,
                   log_buffer, flush_buffer, current_lsn, cvNotified,
                   append_latch_, appPc, appRec, walCalls, walTriggers,
                   assigned, returned, written, swapReturned, cycleDone,
                   flushCall>>

(***************************************************************************)
(*                          EXTENDIBLE HASH TABLE                          *)
(* Keys are ints, hashed by std::hash<int> (the identity).  A Bucket is    *)
(* known by its identity, an index of bucketTab; a bucket no slot of the   *)
(* directory references any more stays there while a thread may still      *)
(* hold a shared_ptr to it.                                                *)
(***************************************************************************)
HashKeys == {0, 1, 2, 4}

HashVals == 1..MaxVal

NoVal == 0

HashThreadIds == 1..HashThreads

RECURSIVE Pow2(_)
Pow2(n) == IF n = 0 THEN 1 ELSE 2 * Pow2(n - 1)

\* (x >> d) & 1
Bit(x, d) == (x \div Pow2(d)) % 2

\* Bucket::Bucket, extendible_hash.h lines 42-43
NewBucket == [local_depth_ |-> 0, entries_ |-> [k \in HashKeys |-> NoVal], latch |-> 0]

\* entries_.size()
EntryCount(b) == Cardinality({k \in HashKeys : b.entries_[k] # NoVal})

\* Bucket::IsFull, lines 14-16
IsFull(b) == EntryCount(b) >= bucket_size_

\* Bucket::AddEntry, lines 19-21
AddEntry(b, key, val) == [b EXCEPT !.entries_[key] = val]

\* Bucket::DeleteEntry, lines 24-26
DeleteEntry(b, key) == [b EXCEPT !.entries_[key] = NoVal]

\* Bucket::IsExists, lines 29-31
IsExists(b, key) == b.entries_[key] # NoVal

\* ExtendibleHash::HashKey, lines 69-73
HashKey(key) == key % Pow2(gloable_depth_)

\* buckets_[HashKey(key)]
SlotBucket(key) == buckets_[HashKey(key) + 1]

\* ExtendibleHash::ExtendibleHash, lines 58-63, for the bucket size given
InitHashOf(size) ==
    /\ gloable_depth_ = 0
    /\ buckets_ = <<1>>
    /\ bucketTab = <<NewBucket>>
    /\ bucket_size_ = size
    /\ bucket_number = 1
    /\ hPc = [t \in HashThreadIds |-> "idle"]
    /\ hOp = [t \in HashThreadIds |-> "none"]
    /\ hKey = [t \in HashThreadIds |-> 0]
    /\ hVal = [t \in HashThreadIds |-> NoVal]
    /\ hBucket = [t \in HashThreadIds |-> 0]
    /\ hHeld = [t \in HashThreadIds |-> 0]
    /\ hashRef = [k \in HashKeys |-> NoVal]
    /\ hashOk = TRUE
    /\ hashThrew = FALSE
    /\ hashCalls = 0

InitHash == \E size \in 1..MaxBucketSize : InitHashOf(size)

\* the hash table while another component is exercised
IdleHash == InitHashOf(1)

\* the call of thread t returns: its unique_lock releases the latch it holds
HashReturn(t, tab) ==
    /\ bucketTab' = IF hHeld[t] = 0 THEN tab
                    ELSE [tab EXCEPT ![hHeld[t]].latch = 0]
    /\ hPc' = [hPc EXCEPT ![t] = "idle"]
    /\ hOp' = [hOp EXCEPT ![t] = "none"]
    /\ hKey' = [hKey EXCEPT ![t] = 0]
    /\ hVal' = [hVal EXCEPT ![t] = NoVal]
    /\ hBucket' = [hBucket EXCEPT ![t] = 0]
    /\ hHeld' = [hHeld EXCEPT ![t] = 0]

\* Find, Remove or Insert is entered: line 105, the first read of the slot
HashInvoke(t, op, key, val) ==
    /\ ~crashed
    /\ hPc[t] = "idle"
    /\ hPc' = [hPc EXCEPT ![t] = "lock"]
    /\ hOp' = [hOp EXCEPT ![t] = op]
    /\ hKey' = [hKey EXCEPT ![t] = key]
    /\ hVal' = [hVal EXCEPT ![t] = IF op = "Insert" THEN val ELSE NoVal]
    /\ hBucket' = [hBucket EXCEPT ![t] = SlotBucket(key)]
    /\ hashRef' = IF op = "Insert" THEN [hashRef EXCEPT ![key] = val] ELSE hashRef
    /\ UNCHANGED <<buildVars, gloable_depth_, buckets_, bucketTab, bucket_size_,
                   bucket_number, hHeld, hashOk, hashThrew>>

\* Find, Remove or Insert is called by a client of the table
HashCall(t, op, key, val) ==
    /\ hashCalls < MaxHashCalls
    /\ hashCalls' = hashCalls + 1
    /\ HashInvoke(t, op, key, val)

\* a lock of the bucket mutex that does not make the thread its holder
LobLock_mut(t) ==
    /\ ~crashed
    /\ hPc[t] = "lock"
    /\ bucketTab[hBucket[t]].latch = 0
    /\ hPc' = [hPc EXCEPT ![t] = "recheck"]
    /\ UNCHANGED <<buildVars, gloable_depth_, buckets_, bucket_size_,
                   bucket_number, bucketTab, hHeld, hOp, hKey, hVal, hBucket,
                   hashRef, hashOk, hashThrew, hashCalls>>

\* LockOperateBucket, lines 107-108: lock the latch of bucket_ptr
LobLock(t) ==
    /\ ~crashed
    /\ hPc[t] = "lock"
    /\ bucketTab[hBucket[t]].latch = 0
    /\ bucketTab' = [bucketTab EXCEPT ![hBucket[t]].latch = t]
    /\ hHeld' = [hHeld EXCEPT ![t] = hBucket[t]]
    /\ hPc' = [hPc EXCEPT ![t] = "recheck"]
    /\ UNCHANGED <<buildVars, gloable_depth_, buckets_, bucket_size_,
                   bucket_number, hOp, hKey, hVal, hBucket, hashRef, hashOk,
                   hashThrew, hashCalls>>

\* LockOperateBucket, lines 109-116: read the slot again, retry if it changed
LobRecheck(t) ==
    /\ ~crashed
    /\ hPc[t] = "recheck"
    /\ IF SlotBucket(hKey[t]) = hBucket[t]
       THEN /\ hPc' = [hPc EXCEPT ![t] = "body"]
            /\ UNCHANGED <<bucketTab, hBucket, hHeld>>
       ELSE /\ bucketTab' = [bucketTab EXCEPT ![hBucket[t]].latch = 0]
            /\ hHeld' = [hHeld EXCEPT ![t] = 0]
            /\ hBucket' = [hBucket EXCEPT ![t] = SlotBucket(hKey[t])]
            /\ hPc' = [hPc EXCEPT ![t] = "lock"]
    /\ UNCHANGED <<buildVars, gloable_depth_, buckets_, bucket_size_,
                   bucket_number, hOp, hKey, hVal, hashRef, hashOk, hashThrew,
                   hashCalls>>

\* ExtendibleHash::Find, lines 127-131
FindBody(t) ==
    /\ ~crashed
    /\ hPc[t] = "body"
    /\ hOp[t] = "Find"
    /\ hashOk' = (hashOk /\ bucketTab[hBucket[t]].entries_[hKey[t]] = hashRef[hKey[t]])
    /\ HashReturn(t, bucketTab)
    /\ UNCHANGED <<buildVars, gloable_depth_, buckets_, bucket_size_,
                   bucket_number, hashRef, hashThrew, hashCalls>>

\* ExtendibleHash::Remove, lines 142-146
RemoveBody(t) ==
    /\ ~crashed
    /\ hPc[t] = "body"
    /\ hOp[t] = "Remove"
    /\ hashOk' = (hashOk /\ (IsExists(bucketTab[hBucket[t]], hKey[t])
                               <=> hashRef[hKey[t]] # NoVal))
    /\ hashRef' = [hashRef EXCEPT ![hKey[t]] = NoVal]
    /\ HashReturn(t, [bucketTab EXCEPT
                        ![hBucket[t]] = DeleteEntry(@, hKey[t])])
    /\ UNCHANGED <<buildVars, gloable_depth_, buckets_, bucket_size_,
                   bucket_number, hashThrew, hashCalls>>

\* ExtendibleHash::Insert, lines 158-161: the bucket is full and is split,
\* or the entry is added
InsertBody(t) ==
    /\ ~crashed
    /\ hPc[t] = "body"
    /\ hOp[t] = "Insert"
    /\ IF IsFull(bucketTab[hBucket[t]])
       THEN /\ hPc' = [hPc EXCEPT ![t] = "split1"]
            /\ UNCHANGED <<bucketTab, hOp, hKey, hVal, hBucket, hHeld>>
       ELSE HashReturn(t, [bucketTab EXCEPT
                             ![hBucket[t]] = AddEntry(@, hKey[t], hVal[t])])
    /\ UNCHANGED <<buildVars, gloable_depth_, buckets_, bucket_size_,
                   bucket_number, hashRef, hashOk, hashThrew, hashCalls>>

\* a thread that reads buckets_ without latch_ (lines 105, 109, 208-209)
ReadsDirectory(u) == hPc[u] \in {"recheck", "split3"}

\* SplitBucket, lines 168-178: double the directory under latch_ if the
\* bucket is as deep as the directory.  resize() throws when the memory is
\* exhausted, and it reallocates buckets_ while other threads read it.
Split1(t) ==
    /\ ~crashed
    /\ hPc[t] = "split1"
    /\ IF gloable_depth_ # bucketTab[hBucket[t]].local_depth_
       THEN /\ hPc' = [hPc EXCEPT ![t] = "split2"]
            /\ UNCHANGED <<crashed, gloable_depth_, buckets_, bucketTab, hOp,
                           hKey, hVal, hBucket, hHeld, hashThrew>>
       ELSE IF gloable_depth_ >= MaxGlobalDepth
       THEN \/ /\ hashThrew' = TRUE
               /\ HashReturn(t, bucketTab)
               /\ UNCHANGED <<crashed, gloable_depth_, buckets_>>
            \/ /\ crashed' = TRUE
               /\ UNCHANGED <<gloable_depth_, buckets_, bucketTab, hPc, hOp,
                              hKey, hVal, hBucket, hHeld, hashThrew>>
       ELSE \/ /\ buckets_' = buckets_ \o buckets_
               /\ gloable_depth_' = gloable_depth_ + 1
               /\ hPc' = [hPc EXCEPT ![t] = "split2"]
               /\ UNCHANGED <<crashed, bucketTab, hOp, hKey, hVal, hBucket,
                              hHeld, hashThrew>>
            \/ /\ \E u \in HashThreadIds \ {t} : ReadsDirectory(u)
               /\ crashed' = TRUE
               /\ UNCHANGED <<gloable_depth_, buckets_, bucketTab, hPc, hOp,
                              hKey, hVal, hBucket, hHeld, hashThrew>>
    /\ UNCHANGED <<ndebug, bucket_size_, bucket_number, hashRef, hashOk,
                   hashCalls>>

\* lines 185-193: the entries of the bucket that go to bucket1 (side 0) or
\* to bucket2 (side 1)
SplitEntries(b, side) ==
    [k \in HashKeys |->
        IF b.entries_[k] # NoVal /\ Bit(HashKey(k), b.local_depth_) = side
        THEN b.entries_[k] ELSE NoVal]

\* a directory that gives bucket2 the slots of bucket1 and the reverse
Rewire_mut(old, depth, b1, b2) ==
    [i \in DOMAIN buckets_ |->
        IF buckets_[i] = old
        THEN IF Bit(i - 1, depth) = 0 THEN b2 ELSE b1
        ELSE buckets_[i]]

\* lines 194-202: the directory with the slots of bucket old redirected
Rewire(old, depth, b1, b2) ==
    [i \in DOMAIN buckets_ |->
        IF buckets_[i] = old
        THEN IF Bit(i - 1, depth) = 0 THEN b1 ELSE b2
        ELSE buckets_[i]]

\* SplitBucket, lines 180-207: under latch_, two new buckets take the
\* entries of bucket_ptr and its slots
Split2(t) ==
    /\ ~crashed
    /\ hPc[t] = "split2"
    /\ LET old == hBucket[t]
           b == bucketTab[old]
           b1 == Len(bucketTab) + 1
           b2 == Len(bucketTab) + 2
       IN  IF gloable_depth_ > b.local_depth_
           THEN /\ bucketTab' = bucketTab \o
                       <<[NewBucket EXCEPT !.entries_ = SplitEntries(b, 0),
                                           !.local_depth_ = b.local_depth_ + 1],
                         [NewBucket EXCEPT !.entries_ = SplitEntries(b, 1),
                                           !.local_depth_ = b.local_depth_ + 1]>>
                /\ buckets_' = Rewire(old, b.local_depth_, b1, b2)
                /\ bucket_number' = bucket_number + 1
           ELSE UNCHANGED <<bucketTab, buckets_, bucket_number>>
    /\ hPc' = [hPc EXCEPT ![t] = "split3"]
    /\ UNCHANGED <<buildVars, gloable_depth_, bucket_size_, hOp, hKey, hVal,
                   hBucket, hHeld, hashRef, hashOk, hashThrew, hashCalls>>

\* SplitBucket, lines 208-213: the bucket of the key now; split it as well
\* if it is full, else return it
Split3(t) ==
    /\ ~crashed
    /\ hPc[t] = "split3"
    /\ hBucket' = [hBucket EXCEPT ![t] = SlotBucket(hKey[t])]
    /\ hPc' = [hPc EXCEPT ![t] = IF IsFull(bucketTab[SlotBucket(hKey[t])])
                                 THEN "split1" ELSE "add"]
    /\ UNCHANGED <<buildVars, gloable_depth_, buckets_, bucketTab, bucket_size_,
                   bucket_number, hOp, hKey, hVal, hHeld, hashRef, hashOk,
                   hashThrew, hashCalls>>

\* Insert, line 161, after SplitBucket returned: AddEntry on the bucket it
\* returned; the latch held is still that of the bucket locked first
AddAfterSplit(t) ==
    /\ ~crashed
    /\ hPc[t] = "add"
    /\ HashReturn(t, [bucketTab EXCEPT
                        ![hBucket[t]] = AddEntry(@, hKey[t], hVal[t])])
    /\ UNCHANGED <<buildVars, gloable_depth_, buckets_, bucket_size_,
                   bucket_number, hashRef, hashOk, hashThrew, hashCalls>>

\* ExtendibleHash::GetNumBuckets, lines 97-100
GetNumBuckets == bucket_number

\* what Find(key) returns in this state: the value, or NoVal for false
Lookup(key) == bucketTab[SlotBucket(key)].entries_[key]

\* the keys a thread works on when threads share the table
KeysOf(t) == IF t = 1 THEN {0, 1} ELSE {2, 4}

HashOps == {"Find", "Remove", "Insert"}

(***************************************************************************)
(*                                 B+ TREE                                 *)
(* A page is its header fields and the live part of array: arr[i + 1] is   *)
(* array[i] for 0 <= i < size, and size is Len(arr).  A slot outside the   *)
(* live part that the code reads without having written it holds what the  *)
(* memory held before: an entry chosen by the call (junk).  The buffer     *)
(* pool is not part of the model: every FetchPage succeeds, NewPage hands  *)
(* out the next page id, UnpinPage and DeletePage leave the pages alone.   *)
(* Operations are functions on a tree T = [pages, root, st, oob, junk]:    *)
(* st is "ok", "throw" once an Exception was thrown, "fault" once a page   *)
(* that holds no node was used as one; oob is TRUE once an entry was       *)
(* written in front of array.                                              *)
(***************************************************************************)
INVALID_PAGE_ID == -1

TreeKeys == 1..MaxTreeKey

TreeVals == 1..MaxVal

\* what a slot never written may hold: zeroes, or an entry left behind
JunkEntries == {[key |-> k, val |-> 0] : k \in {0, MaxTreeKey}}

\* array[i], read
Slot(arr, i, junk) == IF i \in 0..(Len(arr) - 1) THEN arr[i + 1] ELSE junk

\* array[i].first = key (internal page, lines 40-42); a write outside the
\* live part is not seen again
SetKeyAt(arr, i, key) ==
    IF i \in 0..(Len(arr) - 1) THEN [arr EXCEPT ![i + 1].key = key] ELSE arr

\* BPlusTreePage::GetMinSize
GetMinSize == (max_size + 1) \div 2

\* B_PLUS_TREE_LEAF_PAGE_TYPE::Init (leaf page, lines 24-31) and
\* B_PLUS_TREE_INTERNAL_PAGE_TYPE::Init (internal page, lines 20-27), which
\* sets the size to 1
NodeInit(isLeaf, parent, junk) ==
    [leaf |-> isLeaf, parent |-> parent, next |-> INVALID_PAGE_ID,
     arr |-> IF isLeaf THEN <<>> ELSE <<junk>>]

\* internal page ValueIndex, lines 49-57
ValueIndex(arr, value) ==
    IF \E i \in 1..Len(arr) : arr[i].val = value
    THEN (CHOOSE i \in 1..Len(arr) :
              /\ arr[i].val = value
              /\ \A j \in 1..(i - 1) : arr[j].val # value) - 1
    ELSE -1

\* internal page Lookup, lines 78-86
InternalLookup(arr, key, junk) ==
    LET hits == {i \in 1..(Len(arr) - 1) : key < arr[i + 1].key}
    IN  IF hits # {}
        THEN arr[CHOOSE i \in hits : \A j \in hits : i <= j].val
        ELSE Slot(arr, Len(arr) - 1, junk).val

\* leaf page Lookup, lines 153-162: the first entry with the key, if any
LeafLookup(arr, key) ==
    LET hits == {i \in 1..Len(arr) : arr[i].key = key}
    IN  IF hits # {}
        THEN [found |-> TRUE, val |-> arr[CHOOSE i \in hits : \A j \in hits : i <= j].val]
        ELSE [found |-> FALSE, val |-> 0]

\* leaf page Insert, lines 90-111: the loop looks at array[0 .. size - 2]
LeafInsert(arr, key, val) ==
    LET hits == {p \in 0..(Len(arr) - 2) : key < arr[p + 1].key}
        e == [key |-> key, val |-> val]
    IN  IF hits # {}
        THEN LET pos == CHOOSE p \in hits : \A q \in hits : p <= q
             IN  SubSeq(arr, 1, pos) \o <<e>> \o SubSeq(arr, pos + 1, Len(arr))
        ELSE Append(arr, e)

\* leaf page RemoveAndDeleteRecord, lines 174-187
RemoveAndDeleteRecord(arr, key) ==
    LET hits == {i \in 1..Len(arr) : arr[i].key = key}
    IN  IF hits # {}
        THEN LET i == CHOOSE h \in hits : \A j \in hits : h <= j
             IN  SubSeq(arr, 1, i - 1) \o SubSeq(arr, i + 1, Len(arr))
        ELSE arr

\* CopyHalfFrom (leaf page lines 135-142, internal page lines 146-155):
\* the items go to array[size - 1 ...], the size grows by their number
CopyHalfFrom(arr, items, junk) ==
    LET start == Len(arr) - 1
    IN  [j \in 1..(Len(arr) + Len(items)) |->
            IF j - 1 >= start /\ j - 1 < start + Len(items)
            THEN items[j - start]
            ELSE IF j <= Len(arr) THEN arr[j] ELSE junk]

\* CopyAllFrom (leaf page lines 215-226, internal page lines 213-226)
CopyAllFrom(arr, items, junk) ==
    LET g == Len(arr)
        s == Len(items)
    IN  IF Slot(items, 0, junk).key < Slot(arr, 0, junk).key
        THEN [j \in 1..(g + s) |->
                 IF j <= s THEN items[j]
                 ELSE IF j = s + 1 THEN Slot(arr, s, junk)
                 ELSE arr[j - s - 1]]
        ELSE arr \o items

\* BPlusTree::FindLeafPage, lines 386-416; 0 when the descent uses a page
\* that holds no node, or does not end
RECURSIVE FindLeafPage(_, _, _, _, _)
FindLeafPage(T, id, key, leftMost, fuel) ==
    IF id \notin DOMAIN T.pages \/ fuel = 0 THEN 0
    ELSE IF T.pages[id].leaf THEN id
    ELSE FindLeafPage(T,
                      IF leftMost THEN Slot(T.pages[id].arr, 0, T.junk).val
                      ELSE InternalLookup(T.pages[id].arr, key, T.junk),
                      key, leftMost, fuel - 1)

\* BPlusTree::Split, lines 131-141, with MoveHalfTo (leaf page lines
\* 120-132, internal page lines 134-143): the new node is page
\* Len(pages) + 1
Split(T, id) ==
    LET node == T.pages[id]
        n == Len(node.arr)
        start == n \div 2
        new == Len(T.pages) + 1
        fresh == NodeInit(node.leaf, node.parent, T.junk)
    IN  [T EXCEPT
           !.pages = Append(
               [@ EXCEPT ![id].arr = SubSeq(node.arr, 1, start),
                         ![id].next = IF node.leaf THEN new ELSE @],
               [fresh EXCEPT
                   !.arr = CopyHalfFrom(fresh.arr, SubSeq(node.arr, start + 1, n),
                                        T.junk),
                   !.next = node.next]),
           !.oob = @ \/ node.leaf]

\* BPlusTree::InsertIntoParent, lines 153-190, with PopulateNewRoot and
\* InsertNodeAfter (internal page lines 98-125)
RECURSIVE InsertIntoParent(_, _, _, _)
InsertIntoParent(T, old, key, new) ==
    IF T.pages[old].parent = INVALID_PAGE_ID
    THEN LET r == Len(T.pages) + 1
         IN  [T EXCEPT
                !.pages = Append(
                    [@ EXCEPT ![old].parent = r, ![new].parent = r],
                    [NodeInit(FALSE, INVALID_PAGE_ID, T.junk) EXCEPT
                        !.arr = <<[key |-> 0, val |-> old],
                                  [key |-> key, val |-> new]>>]),
                !.root = r]
    ELSE LET pid == T.pages[old].parent
             parr == T.pages[pid].arr
             index == ValueIndex(parr, old)
             T1 == [T EXCEPT !.pages[pid].arr =
                       SubSeq(parr, 1, index + 1)
                       \o <<[key |-> key, val |-> new]>>
                       \o SubSeq(parr, index + 2, Len(parr))]
         IN  IF index < 0 THEN [T EXCEPT !.st = "throw"]
             ELSE IF Len(T1.pages[pid].arr) >= max_size
             THEN LET T2 == Split(T1, pid)
                      split == Len(T2.pages)
                  IN  InsertIntoParent(T2, pid,
                                       Slot(T2.pages[split].arr, 0, T.junk).key,
                                       split)
             ELSE T1

\* BPlusTree::Insert, lines 64-72, with StartNewTree (80-92) and
\* InsertIntoLeaf (103-121); ret is what Insert returns
InsertTree(T, key, val) ==
    IF T.root = INVALID_PAGE_ID
    THEN [tree |-> [T EXCEPT
                      !.pages = Append(@, [NodeInit(TRUE, INVALID_PAGE_ID, T.junk)
                                              EXCEPT !.arr = LeafInsert(<<>>, key, val)]),
                      !.root = Len(T.pages) + 1],
          ret |-> TRUE]
    ELSE LET leaf == FindLeafPage(T, T.root, key, FALSE, Len(T.pages))
             T1 == [T EXCEPT !.pages[leaf].arr = LeafInsert(@, key, val)]
             T2 == Split(T1, leaf)
             new == Len(T2.pages)
         IN  IF leaf = 0 THEN [tree |-> [T EXCEPT !.st = "fault"], ret |-> FALSE]
             ELSE IF LeafLookup(T.pages[leaf].arr, key).found
             THEN [tree |-> T, ret |-> FALSE]
             ELSE IF Len(T1.pages[leaf].arr) >= max_size
             THEN [tree |-> InsertIntoParent(T2, leaf,
                               Slot(T2.pages[new].arr, 0, T.junk).key, new),
                   ret |-> TRUE]
             ELSE [tree |-> T1, ret |-> TRUE]

\* MoveAllTo (leaf page lines 197-213, internal page lines 194-210): the
\* entries of node from go to node to; index is from's index in the parent
MoveAllTo(T, from, to, index) ==
    LET me == T.pages[from]
        pid == me.parent
        parr == T.pages[pid].arr
        first == Slot(me.arr, 0, T.junk).key
        keyed == IF first < Slot(T.pages[to].arr, 0, T.junk).key
                 THEN SetKeyAt(parr, index + 1, first) ELSE parr
        T1 == [T EXCEPT !.pages[pid].arr = keyed]
        T2 == [T1 EXCEPT !.pages[pid].arr =
                  SubSeq(keyed, 1, index) \o SubSeq(keyed, index + 2, Len(keyed))]
    IN  IF pid \notin DOMAIN T.pages THEN [T EXCEPT !.st = "fault"]
        ELSE IF index > Len(keyed) - 1 THEN [T1 EXCEPT !.st = "throw"]
        ELSE [T2 EXCEPT
                !.pages[to].arr = CopyAllFrom(@, me.arr, T.junk),
                !.pages[to].next = IF me.leaf THEN me.next ELSE @]

\* MoveFirstToEndOf with CopyLastFrom (leaf page lines 236-265, internal
\* page lines 236-266)
MoveFirstToEndOf(T, from, to) ==
    LET me == T.pages[from]
        pid == me.parent
        item == Slot(me.arr, 0, T.junk)
        T1 == [T EXCEPT !.pages[to].arr = Append(@, item)]
        parrent_index == ValueIndex(T.pages[pid].arr, item.val)
    IN  IF pid \notin DOMAIN T.pages THEN [T1 EXCEPT !.st = "fault"]
        ELSE IF parrent_index < 0 THEN [T1 EXCEPT !.st = "throw"]
        ELSE [T1 EXCEPT
                !.pages[pid].arr = SetKeyAt(@, parrent_index,
                                            Slot(me.arr, 1, T.junk).key),
                !.pages[from].arr = IF me.arr = <<>> THEN <<>> ELSE Tail(me.arr)]

\* MoveLastToFrontOf with CopyFirstFrom (leaf page lines 271-296, internal
\* page lines 273-298)
MoveLastToFrontOf(T, from, to, parent_index) ==
    LET me == T.pages[from]
        item == Slot(me.arr, Len(me.arr) - 1, T.junk)
        pid == T.pages[to].parent
        T1 == [T EXCEPT !.pages[to].arr = <<item>> \o @]
    IN  IF pid \notin DOMAIN T.pages THEN [T1 EXCEPT !.st = "fault"]
        ELSE [T1 EXCEPT
                !.pages[pid].arr = SetKeyAt(@, parent_index, item.key),
                !.pages[from].arr = SubSeq(me.arr, 1, Len(me.arr) - 1)]

\* BPlusTree::AdjustRoot, lines 330-350, with RemoveAndReturnOnlyChild
\* (internal page lines 182-185)
AdjustRoot(T, id) ==
    LET node == T.pages[id]
        child == node.arr[1].val
    IN  IF ~node.leaf /\ Len(node.arr) = 1
        THEN IF child \notin DOMAIN T.pages THEN [T EXCEPT !.st = "fault"]
             ELSE [T EXCEPT !.root = child,
                            !.pages[id].arr = <<>>,
                            !.pages[child].parent = INVALID_PAGE_ID]
        ELSE IF node.leaf /\ Len(node.arr) < 1
        THEN [T EXCEPT !.root = INVALID_PAGE_ID]
        ELSE T

\* BPlusTree::CoalesceOrRedistribute, lines 229-272, with Redistribute
\* (312-318) and Coalesce (288-299)
RECURSIVE CoalesceOrRedistribute(_, _)
CoalesceOrRedistribute(T, id) ==
    LET node == T.pages[id]
        pid == node.parent
        parr == T.pages[pid].arr
        index == ValueIndex(parr, id)
        sibling == IF index = 0 THEN Slot(parr, 1, T.junk).val
                   ELSE Slot(parr, index - 1, T.junk).val
        moved == IF index = 0 THEN MoveAllTo(T, sibling, id, index + 1)
                 ELSE MoveAllTo(T, id, sibling, index)
    IN  IF pid = INVALID_PAGE_ID THEN AdjustRoot(T, id)
        ELSE IF sibling \notin DOMAIN T.pages THEN [T EXCEPT !.st = "fault"]
        ELSE IF Len(T.pages[sibling].arr) + Len(node.arr) >= max_size
        THEN IF index = 0 THEN MoveFirstToEndOf(T, sibling, id)
             ELSE MoveLastToFrontOf(T, sibling, id, index)
        ELSE IF moved.st = "ok" /\ Len(moved.pages[pid].arr) < GetMinSize
        THEN CoalesceOrRedistribute(moved, pid)
        ELSE moved

\* BPlusTree::Remove, lines 203-218
RemoveTree(T, key) ==
    LET leaf == FindLeafPage(T, T.root, key, FALSE, Len(T.pages))
        T1 == [T EXCEPT !.pages[leaf].arr = RemoveAndDeleteRecord(@, key)]
    IN  IF T.root = INVALID_PAGE_ID THEN T
        ELSE IF leaf = 0 THEN [T EXCEPT !.st = "fault"]
        ELSE IF Len(T1.pages[leaf].arr) < GetMinSize
        THEN CoalesceOrRedistribute(T1, leaf)
        ELSE T1

\* BPlusTree::GetValue, lines 39-51
GetValue(T, key) ==
    LET leaf == FindLeafPage(T, T.root, key, FALSE, Len(T.pages))
    IN  IF leaf = 0 THEN [found |-> FALSE, val |-> -1]
        ELSE LeafLookup(T.pages[leaf].arr, key)

\* the keys *it yields from the iterator position (id, pos) until isEnd(),
\* with operator++ in between (index_iterator.cpp lines 35-81); -1 stands
\* for a slot never written and for an iteration that does not end
RECURSIVE Iterate(_, _, _, _)
Iterate(T, id, pos, fuel) ==
    IF id \notin DOMAIN T.pages \/ fuel = 0 THEN <<-1>>
    ELSE LET node == T.pages[id]
             size == Len(node.arr)
         IN  IF pos >= size /\ node.next = INVALID_PAGE_ID THEN <<>>
             ELSE <<Slot(node.arr, pos, [key |-> -1, val |-> 0]).key>>
                  \o (IF pos < size - 1 THEN Iterate(T, id, pos + 1, fuel - 1)
                      ELSE IF node.next = INVALID_PAGE_ID THEN <<>>
                      ELSE Iterate(T, node.next, 0, fuel - 1))

\* BPlusTree::Begin(), lines 361-365, iterated to the end
Begin(T) ==
    Iterate(T, FindLeafPage(T, T.root, 0, TRUE, Len(T.pages)), 0, ScanFuel)

\* the tree of the current state, for a call that reads junk
Tree(junk) ==
    [pages |-> pages, root |-> root_page_id_, st |-> "ok", oob |-> FALSE,
     junk |-> junk]

\* BPlusTree::BPlusTree, lines 16-21, for nodes of the given max_size
InitTreeOf(size) ==
    /\ max_size = size
    /\ pages = <<>>
    /\ root_page_id_ = INVALID_PAGE_ID
    /\ tOp = "none"
    /\ tKey = 0
    /\ tRet = FALSE
    /\ tDup = FALSE
    /\ treeRef = [k \in TreeKeys |-> 0]
    /\ treeCalls = 0

InitTree == \E size \in 3..MaxTreeSize : InitTreeOf(size)

\* the tree while another component is exercised
IdleTree == InitTreeOf(3)

\* a call ends with tree R.  An entry written in front of array lands in
\* the header of the page: the header survives (the bytes written are those
\* it held), or the page is no node any more; a page that holds no node and
\* is used as one ends the process.
TreeCallEnds(R, op, key, result, ref) ==
    /\ treeCalls' = treeCalls + 1
    /\ tOp' = op
    /\ tKey' = key
    /\ tDup' = (treeRef[key] # 0)
    /\ \/ /\ R.st # "fault"
          /\ pages' = R.pages
          /\ root_page_id_' = R.root
          /\ tRet' = IF R.st = "ok" THEN result ELSE FALSE
          /\ treeRef' = IF R.st = "ok" THEN ref ELSE treeRef
          /\ UNCHANGED crashed
       \/ /\ R.st = "fault" \/ R.oob
          /\ crashed' = TRUE
          /\ UNCHANGED <<pages, root_page_id_, tRet, treeRef>>
    /\ UNCHANGED <<ndebug, max_size>>

\* a call of BPlusTree::Insert
TreeInsert(key, val) ==
    /\ ~crashed
    /\ treeCalls < MaxTreeCalls
    /\ \E junk \in JunkEntries :
          LET R == InsertTree(Tree(junk), key, val)
          IN  TreeCallEnds(R.tree, "Insert", key, R.ret,
                           IF R.ret THEN [treeRef EXCEPT ![key] = val] ELSE treeRef)

\* a call of BPlusTree::Remove
TreeRemove(key) ==
    /\ ~crashed
    /\ treeCalls < MaxTreeCalls
    /\ \E junk \in JunkEntries :
          TreeCallEnds(RemoveTree(Tree(junk), key), "Remove", key, FALSE,
                       [treeRef EXCEPT ![key] = 0])

(***************************************************************************)
(* The calls a tree operation makes on the buffer pool and on the pages it *)
(* hands out, in the order of the code: <<"Fetch", id>> for FetchPage,     *)
(* <<"New", id>> for NewPage, <<"Unpin", id>> for UnpinPage.  Page 0 is    *)
(* the header page.  The code calls RLatch, WLatch, RUnlatch and WUnlatch  *)
(* of no page, so no call of them is in any of the sequences.              *)
(***************************************************************************)
\* FindLeafPage, lines 395-413: below the node id, which is pinned, fetch
\* the child and unpin the node
RECURSIVE DescentCalls(_, _, _, _)
DescentCalls(T, id, key, fuel) ==
    IF id \notin DOMAIN T.pages \/ fuel = 0 THEN <<>>
    ELSE IF T.pages[id].leaf THEN <<>>
    ELSE LET value == InternalLookup(T.pages[id].arr, key, T.junk)
         IN  <<<<"Fetch", value>>, <<"Unpin", id>>>>
             \o DescentCalls(T, value, key, fuel - 1)

\* FindLeafPage, lines 388-415
FindLeafPageCalls(T, key) ==
    <<<<"Fetch", T.root>>>> \o DescentCalls(T, T.root, key, Len(T.pages))

\* GetValue, lines 43-49
GetValueCalls(T, key) ==
    FindLeafPageCalls(T, key)
    \o <<<<"Unpin", FindLeafPage(T, T.root, key, FALSE, Len(T.pages))>>>>

\* Split, lines 133-139, with MoveHalfTo: the leaf page unpins itself and
\* the recipient (lines 130-131), the internal page has the recipient
\* unpinned by CopyHalfFrom (line 154) and unpins itself (line 142)
SplitCalls(T, id) ==
    LET new == Len(T.pages) + 1
    IN  IF T.pages[id].leaf
        THEN <<<<"New", new>>, <<"Unpin", id>>, <<"Unpin", new>>>>
        ELSE <<<<"New", new>>, <<"Unpin", new>>, <<"Unpin", id>>>>

\* InsertIntoParent, lines 158-189, with UpdateRootPageId (lines 428-436)
RECURSIVE InsertIntoParentCalls(_, _, _, _)
InsertIntoParentCalls(T, old, key, new) ==
    IF T.pages[old].parent = INVALID_PAGE_ID
    THEN LET r == Len(T.pages) + 1
         IN  <<<<"New", r>>, <<"Fetch", 0>>, <<"Unpin", 0>>, <<"Unpin", r>>>>
    ELSE LET pid == T.pages[old].parent
             parr == T.pages[pid].arr
             index == ValueIndex(parr, old)
             T1 == [T EXCEPT !.pages[pid].arr =
                       SubSeq(parr, 1, index + 1)
                       \o <<[key |-> key, val |-> new]>>
                       \o SubSeq(parr, index + 2, Len(parr))]
             T2 == Split(T1, pid)
             split == Len(T2.pages)
         IN  <<<<"Fetch", pid>>>>
             \o (IF index < 0 THEN <<>>
                 ELSE (IF Len(T1.pages[pid].arr) >= max_size
                       THEN SplitCalls(T1, pid)
                            \o InsertIntoParentCalls(
                                   T2, pid,
                                   Slot(T2.pages[split].arr, 0, T.junk).key,
                                   split)
                            \o <<<<"Unpin", split>>>>
                       ELSE <<>>)
                      \o <<<<"Unpin", pid>>>>)

\* Insert, lines 64-72, with StartNewTree (lines 82-91) and InsertIntoLeaf
\* (lines 106-120)
InsertCalls(T, key, val) ==
    IF T.root = INVALID_PAGE_ID
    THEN LET p == Len(T.pages) + 1
         IN  <<<<"New", p>>, <<"Fetch", 0>>, <<"Unpin", 0>>, <<"Unpin", p>>>>
    ELSE LET leaf == FindLeafPage(T, T.root, key, FALSE, Len(T.pages))
             T1 == [T EXCEPT !.pages[leaf].arr = LeafInsert(@, key, val)]
             T2 == Split(T1, leaf)
             new == Len(T2.pages)
         IN  FindLeafPageCalls(T, key)
             \o (IF leaf = 0 THEN <<>>
                 ELSE IF LeafLookup(T.pages[leaf].arr, key).found
                 THEN <<<<"Unpin", leaf>>>>
                 ELSE (IF Len(T1.pages[leaf].arr) >= max_size
                       THEN SplitCalls(T1, leaf)
                            \o InsertIntoParentCalls(
                                   T2, leaf,
                                   Slot(T2.pages[new].arr, 0, T.junk).key, new)
                            \o <<<<"Unpin", new>>>>
                       ELSE <<>>)
                      \o <<<<"Unpin", leaf>>>>)

\* the pin count of page id after the first n calls of a sequence that
\* began with the page unpinned: FetchPage and NewPage add one, UnpinPage
\* takes one off and does nothing at pin count 0
RECURSIVE PinCount(_, _, _)
PinCount(calls, n, id) ==
    IF n = 0 THEN 0
    ELSE LET c == PinCount(calls, n - 1, id)
         IN  IF calls[n][2] # id THEN c
             ELSE IF calls[n][1] = "Unpin" THEN (IF c > 0 THEN c - 1 ELSE 0)
             ELSE IF calls[n][1] \in {"Fetch", "New"} THEN c + 1
             ELSE c

\* the latches held on page id after the calls of the sequence
LatchCount(calls, id) ==
    Cardinality({n \in DOMAIN calls :
                    calls[n][2] = id /\ calls[n][1] \in {"RLatch", "WLatch"}})
    - Cardinality({n \in DOMAIN calls :
                      calls[n][2] = id /\ calls[n][1] \in {"RUnlatch", "WUnlatch"}})

(***************************************************************************)
(*                              LRU REPLACER                               *)
(* queue is the std::list, front first.  hash_table is the extendible      *)
(* hash table above, used by thread 1; the list iterator it stores for a   *)
(* value designates the element of queue with that value.  One caller      *)
(* works on the replacer, holding latch for the whole of each call.        *)
(***************************************************************************)
\* the result of a call; for Insert, found tells whether the value was there
LruResult(op, found, value) == [op |-> op, ok |-> found, value |-> value]

\* LRUReplacer::LRUReplacer, lines 13-14
InitLru ==
    /\ queue = <<>>
    /\ lruPc = "idle"
    /\ lruOp = "none"
    /\ lruVal = 0
    /\ lruRet = LruResult("none", FALSE, 0)
    /\ lruOrder = <<>>
    /\ lruCalls = 0

\* an erase that leaves the element in the sequence
Without_mut(s, v) == s

\* the sequence without the value
Without(s, v) == IF v \in Range(s) THEN EraseFirst(s, v) ELSE s

\* a call begins: the caller, the operation and the value
LruEnter(op, v, to) ==
    /\ ~crashed
    /\ lruPc = "idle"
    /\ lruCalls < MaxLruCalls
    /\ lruCalls' = lruCalls + 1
    /\ lruOp' = op
    /\ lruVal' = v
    /\ lruPc' = to

\* a call returns
LruReturn(result, q, order) ==
    /\ lruPc' = "idle"
    /\ lruRet' = result
    /\ queue' = q
    /\ lruOrder' = order
    /\ UNCHANGED <<lruOp, lruVal, lruCalls>>

\* LRUReplacer::Insert, lines 22-25, and LRUReplacer::Erase, lines 51-54:
\* hash_table.Find is entered
LruFind(op, v) ==
    /\ LruEnter(op, v, "find")
    /\ HashInvoke(1, "Find", v, 1)
    /\ UNCHANGED <<queue, lruRet, lruOrder, hashCalls>>

\* a queue grown by a promotion
SpliceFront_mut(q, v) == <<v>> \o q

\* line 26: queue.splice(queue.begin(), queue, iter)
SpliceFront(q, v) == <<v>> \o Without(q, v)

\* lines 25-27 and 54-59: hash_table.Find returns
LruFound ==
    /\ lruPc = "find"
    /\ FindBody(1)
    /\ LET found == IsExists(bucketTab[hBucket[1]], lruVal)
       IN  IF found /\ lruOp = "Insert"
           THEN LruReturn(LruResult("Insert", TRUE, lruVal),
                          SpliceFront(queue, lruVal),
                          Append(Without(lruOrder, lruVal), lruVal))
           ELSE IF ~found /\ lruOp = "Erase"
           THEN LruReturn(LruResult("Erase", FALSE, lruVal), queue, lruOrder)
           ELSE /\ lruPc' = IF found THEN "unindex" ELSE "push"
                /\ UNCHANGED <<queue, lruOp, lruVal, lruRet, lruOrder, lruCalls>>

\* lines 28-29: queue.push_front(value), hash_table.Insert is entered
LruPush ==
    /\ lruPc = "push"
    /\ queue' = <<lruVal>> \o queue
    /\ HashInvoke(1, "Insert", lruVal, 1)
    /\ lruPc' = "insert"
    /\ UNCHANGED <<lruOp, lruVal, lruRet, lruOrder, lruCalls, hashCalls>>

\* line 29: hash_table.Insert returns, and so does Insert
LruInserted ==
    /\ lruPc = "insert"
    /\ InsertBody(1) \/ AddAfterSplit(1)
    /\ hPc'[1] = "idle"
    /\ LruReturn(LruResult("Insert", FALSE, lruVal), queue,
                 Append(Without(lruOrder, lruVal), lruVal))

\* a victim taken from the front of the queue
VictimOf_mut(q) == Head(q)

\* line 41: value = queue.back()
VictimOf(q) == Last(q)

\* LRUReplacer::Victim, lines 36-42: false on an empty queue, else
\* hash_table.Remove(queue.back()) is entered
LruVictim ==
    IF queue = <<>>
    THEN /\ LruEnter("Victim", 0, "idle")
         /\ lruRet' = LruResult("Victim", FALSE, 0)
         /\ UNCHANGED <<queue, lruOrder, buildVars, hashVars>>
    ELSE /\ LruEnter("Victim", VictimOf(queue), "remove")
         /\ HashInvoke(1, "Remove", VictimOf(queue), 1)
         /\ UNCHANGED <<queue, lruRet, lruOrder, hashCalls>>

\* LRUReplacer::Erase, line 55: hash_table.Remove is entered
LruUnindex ==
    /\ lruPc = "unindex"
    /\ HashInvoke(1, "Remove", lruVal, 1)
    /\ lruPc' = "remove"
    /\ UNCHANGED <<queue, lruOp, lruVal, lruRet, lruOrder, lruCalls, hashCalls>>

\* lines 43-44 and 56-57: hash_table.Remove returns; queue.pop_back() in
\* Victim, queue.erase(erase_it) in Erase
LruRemoved ==
    /\ lruPc = "remove"
    /\ RemoveBody(1)
    /\ LruReturn(LruResult(lruOp, TRUE, lruVal),
                 IF lruOp = "Victim" THEN Front(queue) ELSE Without(queue, lruVal),
                 Without(lruOrder, lruVal))

\* hash_table works on a call of the replacer; an exception of
\* hash_table.Insert ends the call of the replacer
LruHashStep ==
    /\ lruPc \in {"find", "insert", "remove"}
    /\ \/ LobLock(1)
       \/ LobRecheck(1)
       \/ InsertBody(1)
       \/ Split1(1)
       \/ Split2(1)
       \/ Split3(1)
    /\ hPc'[1] # "idle" \/ hashThrew'
    /\ IF hPc'[1] = "idle"
       THEN LruReturn(LruResult(lruOp, FALSE, -1), queue, lruOrder)
       ELSE UNCHANGED lruVars

\* LRUReplacer::Size, lines 62-65
Size == Len(queue)

(***************************************************************************)
(*                             SPECIFICATIONS                              *)
(***************************************************************************)
NextLock ==
    \/ \E t \in Txns, rid \in RIDs : LockShared(t, rid) /\ UNCHANGED <<walVars, hashVars, treeVars, lruVars>>
    \/ \E t \in Txns : ResumeShared(t) /\ UNCHANGED <<walVars, hashVars, treeVars, lruVars>>
    \/ \E t \in Txns, rid \in RIDs : LockExclusive(t, rid) /\ UNCHANGED <<walVars, hashVars, treeVars, lruVars>>
    \/ \E t \in Txns : ResumeExclusive(t) /\ UNCHANGED <<walVars, hashVars, treeVars, lruVars>>
    \/ \E t \in Txns, rid \in RIDs : LockUpgrade(t, rid) /\ UNCHANGED <<walVars, hashVars, treeVars, lruVars>>
    \/ \E t \in Txns : UpgradeUnlock(t) /\ UNCHANGED <<walVars, hashVars, treeVars, lruVars>>
    \/ \E t \in Txns : UpgradeLock(t) /\ UNCHANGED <<walVars, hashVars, treeVars, lruVars>>
    \/ \E t \in Txns, rid \in RIDs : Unlock(t, rid) /\ UNCHANGED <<walVars, hashVars, treeVars, lruVars>>
    \/ \E t \in Txns : Commit(t) /\ UNCHANGED <<walVars, hashVars, treeVars, lruVars>>

InitLockSpec ==
    /\ ndebug \in BOOLEAN
    /\ crashed = FALSE
    /\ InitLock
    /\ InitWal
    /\ IdleHash
    /\ IdleTree
    /\ InitLru

SpecLock == InitLockSpec /\ [][NextLock]_vars

NextWal ==
    \/ \E t \in WalThreadIds, size \in 1..MaxRecordSize, type \in RecordTypes :
           AppendLogRecord(t, size, type) /\ UNCHANGED <<lockVars, hashVars, treeVars, lruVars, flushCall, stopPc>>
    \/ AppendTrigger /\ UNCHANGED <<lockVars, hashVars, treeVars, lruVars, flushCall, stopPc>>
    \/ AppendWaitBg /\ UNCHANGED <<lockVars, hashVars, treeVars, lruVars, flushCall, stopPc>>
    \/ AppendRelock /\ UNCHANGED <<lockVars, hashVars, treeVars, lruVars, flushCall, stopPc>>
    \/ CallerTrigger /\ UNCHANGED <<lockVars, hashVars, treeVars, lruVars, stopPc>>
    \/ WaitUntilBgTaskFinish /\ UNCHANGED <<lockVars, hashVars, treeVars, lruVars, stopPc>>
    \/ RunFlushThread /\ UNCHANGED <<lockVars, hashVars, treeVars, lruVars, flushCall, stopPc>>
    \/ FlusherWait /\ UNCHANGED <<lockVars, hashVars, treeVars, lruVars, flushCall, stopPc>>
    \/ FlusherSwap /\ UNCHANGED <<lockVars, hashVars, treeVars, lruVars, flushCall, stopPc>>
    \/ FlusherWrite /\ UNCHANGED <<lockVars, hashVars, treeVars, lruVars, flushCall, stopPc>>
    \/ FlusherFinish /\ UNCHANGED <<lockVars, hashVars, treeVars, lruVars, flushCall, stopPc>>
    \/ FlusherTest /\ UNCHANGED <<lockVars, hashVars, treeVars, lruVars, flushCall, stopPc>>
    \/ StopFlushThread /\ UNCHANGED <<lockVars, hashVars, treeVars, lruVars>>
    \/ StopTrigger /\ UNCHANGED <<lockVars, hashVars, treeVars, lruVars>>
    \/ StopJoin /\ UNCHANGED <<lockVars, hashVars, treeVars, lruVars>>

InitWalSpec ==
    /\ ndebug \in BOOLEAN
    /\ crashed = FALSE
    /\ IdleLock
    /\ InitWal
    /\ IdleHash
    /\ IdleTree
    /\ InitLru

SpecWal == InitWalSpec /\ [][NextWal]_vars

\* the scheduler lets every thread run, and wait_for returns after
\* LOG_TIMEOUT at the latest
SpecWalLive ==
    /\ InitWalSpec
    /\ [][NextWal]_vars
    /\ WF_vars(FlusherTest /\ UNCHANGED <<lockVars, hashVars, treeVars, lruVars, flushCall, stopPc>>)
    /\ WF_vars(FlusherWait /\ UNCHANGED <<lockVars, hashVars, treeVars, lruVars, flushCall, stopPc>>)
    /\ WF_vars(FlusherSwap /\ UNCHANGED <<lockVars, hashVars, treeVars, lruVars, flushCall, stopPc>>)
    /\ WF_vars(FlusherWrite /\ UNCHANGED <<lockVars, hashVars, treeVars, lruVars, flushCall, stopPc>>)
    /\ WF_vars(FlusherFinish /\ UNCHANGED <<lockVars, hashVars, treeVars, lruVars, flushCall, stopPc>>)
    /\ WF_vars(StopTrigger /\ UNCHANGED <<lockVars, hashVars, treeVars, lruVars>>)
    /\ WF_vars(StopJoin /\ UNCHANGED <<lockVars, hashVars, treeVars, lruVars>>)

\* one thread works on the hash table
NextHash ==
    \/ \E op \in HashOps, key \in HashKeys, val \in HashVals :
           HashCall(1, op, key, val) /\ UNCHANGED <<lockVars, walVars, treeVars, lruVars>>
    \/ LobLock(1) /\ UNCHANGED <<lockVars, walVars, treeVars, lruVars>>
    \/ LobRecheck(1) /\ UNCHANGED <<lockVars, walVars, treeVars, lruVars>>
    \/ FindBody(1) /\ UNCHANGED <<lockVars, walVars, treeVars, lruVars>>
    \/ RemoveBody(1) /\ UNCHANGED <<lockVars, walVars, treeVars, lruVars>>
    \/ InsertBody(1) /\ UNCHANGED <<lockVars, walVars, treeVars, lruVars>>
    \/ Split1(1) /\ UNCHANGED <<lockVars, walVars, treeVars, lruVars>>
    \/ Split2(1) /\ UNCHANGED <<lockVars, walVars, treeVars, lruVars>>
    \/ Split3(1) /\ UNCHANGED <<lockVars, walVars, treeVars, lruVars>>
    \/ AddAfterSplit(1) /\ UNCHANGED <<lockVars, walVars, treeVars, lruVars>>

InitHashSpec ==
    /\ ndebug \in BOOLEAN
    /\ crashed = FALSE
    /\ IdleLock
    /\ InitWal
    /\ InitHash
    /\ IdleTree
    /\ InitLru

SpecHash == InitHashSpec /\ [][NextHash]_vars

\* several threads work on the hash table, each on its own keys
NextHashMT ==
    \/ \E t \in HashThreadIds, op \in HashOps, val \in HashVals :
           \E key \in KeysOf(t) :
               HashCall(t, op, key, val) /\ UNCHANGED <<lockVars, walVars, treeVars, lruVars>>
    \/ \E t \in HashThreadIds : LobLock(t) /\ UNCHANGED <<lockVars, walVars, treeVars, lruVars>>
    \/ \E t \in HashThreadIds : LobRecheck(t) /\ UNCHANGED <<lockVars, walVars, treeVars, lruVars>>
    \/ \E t \in HashThreadIds : FindBody(t) /\ UNCHANGED <<lockVars, walVars, treeVars, lruVars>>
    \/ \E t \in HashThreadIds : RemoveBody(t) /\ UNCHANGED <<lockVars, walVars, treeVars, lruVars>>
    \/ \E t \in HashThreadIds : InsertBody(t) /\ UNCHANGED <<lockVars, walVars, treeVars, lruVars>>
    \/ \E t \in HashThreadIds : Split1(t) /\ UNCHANGED <<lockVars, walVars, treeVars, lruVars>>
    \/ \E t \in HashThreadIds : Split2(t) /\ UNCHANGED <<lockVars, walVars, treeVars, lruVars>>
    \/ \E t \in HashThreadIds : Split3(t) /\ UNCHANGED <<lockVars, walVars, treeVars, lruVars>>
    \/ \E t \in HashThreadIds : AddAfterSplit(t) /\ UNCHANGED <<lockVars, walVars, treeVars, lruVars>>

SpecHashMT == InitHashSpec /\ [][NextHashMT]_vars

\* one thread works on the B+ tree
NextTree ==
    \/ \E key \in TreeKeys, val \in TreeVals :
           TreeInsert(key, val) /\ UNCHANGED <<lockVars, walVars, hashVars, lruVars>>
    \/ \E key \in TreeKeys :
           TreeRemove(key) /\ UNCHANGED <<lockVars, walVars, hashVars, lruVars>>

InitTreeSpec ==
    /\ ndebug \in BOOLEAN
    /\ crashed = FALSE
    /\ IdleLock
    /\ InitWal
    /\ IdleHash
    /\ InitTree
    /\ InitLru

SpecTree == InitTreeSpec /\ [][NextTree]_vars

\* one caller works on the LRU replacer
NextLru ==
    \/ \E v \in HashKeys :
           LruFind("Insert", v) /\ UNCHANGED <<lockVars, walVars, treeVars>>
    \/ \E v \in HashKeys :
           LruFind("Erase", v) /\ UNCHANGED <<lockVars, walVars, treeVars>>
    \/ LruVictim /\ UNCHANGED <<lockVars, walVars, treeVars>>
    \/ LruHashStep /\ UNCHANGED <<lockVars, walVars, treeVars>>
    \/ LruFound /\ UNCHANGED <<lockVars, walVars, treeVars>>
    \/ LruPush /\ UNCHANGED <<lockVars, walVars, treeVars>>
    \/ LruInserted /\ UNCHANGED <<lockVars, walVars, treeVars>>
    \/ LruUnindex /\ UNCHANGED <<lockVars, walVars, treeVars>>
    \/ LruRemoved /\ UNCHANGED <<lockVars, walVars, treeVars>>

InitLruSpec ==
    /\ ndebug \in BOOLEAN
    /\ crashed = FALSE
    /\ IdleLock
    /\ InitWal
    /\ InitHash
    /\ IdleTree
    /\ InitLru

SpecLru == InitLruSpec /\ [][NextLru]_vars


(***************************************************************************)
(* Properties of the lock manager.                                         *)
(***************************************************************************)
\* the transactions blocked on the future of their WaitItem
Blocked == {t \in Txns : pc[t] \in WaitPcs /\ future[t] = "none"}

\* the holders of the lock the blocked transaction t waits for
Holders(t) == Range(record_lock_table[curRid[t]].granted)

\* C1: lock compatibility.  For every RID of the lock table the state is
\* SHARED, or it is EXCLUSIVE and the granted list has exactly one member;
\* in particular two transactions are never both in the granted list of an
\* RID whose state is EXCLUSIVE.
C1_LockCompatibility ==
    \A r \in RIDs :
        LET wl == record_lock_table[r] IN
        (wl.present /\ wl.state = "EXCLUSIVE") =>
            Cardinality(Range(wl.granted)) <= 1

\* C2: deadlock freedom.  No non-empty set of transactions are all blocked
\* on their futures while every lock they wait for is held, and held only
\* by members of the set (a transaction waiting for itself included).
C2_DeadlockFree ==
    ~ \E S \in (SUBSET Txns) \ {{}} :
          /\ S \subseteq Blocked
          /\ \A t \in S : /\ ~orphan[t]
                          /\ Holders(t) # {}
                          /\ Holders(t) \subseteq S

(***************************************************************************)
(* Properties of the log manager.                                          *)
(***************************************************************************)
\* the LSN fields of the records of a buffer, in buffer order
Lsns(buf) == [i \in DOMAIN buf |-> buf[i].lsn]

StrictlyIncreasing(s) == \A i, j \in DOMAIN s : i < j => s[i] < s[j]

\* the LSNs whose record, as serialized, was handed to a completed WriteLog
IntactWritten == {written[i].lsn : i \in {j \in DOMAIN written : written[j].intact}}

\* C3: WAL LSN order.  The LSNs assigned are the values of next_lsn, each
\* used once, increasing in the order of the appends; the records lie in
\* the log buffer, and are handed to WriteLog, in strictly increasing LSN
\* order.
C3_LsnOrder ==
    /\ \A i \in DOMAIN assigned : assigned[i] = i - 1
    /\ StrictlyIncreasing(Lsns(flush_buffer \o log_buffer))
    /\ StrictlyIncreasing(Lsns(written))

\* C4: WAL durable prefix.  Every record whose LSN is at most persistent_lsn
\* has been handed to a completed WriteLog call, and the LSNs written so far
\* are a gap-free prefix of the LSNs assigned.
C4_DurablePrefix ==
    /\ \A l \in Range(assigned) : l <= persistent_lsn_ => l \in IntactWritten
    /\ \A l \in IntactWritten : \A k \in 0..l : k \in IntactWritten

\* C5: when a flush cycle completes (FlusherFinish clears flush_buffer_size_
\* and notifies), persistent_lsn is at least every LSN AppendLogRecord had
\* returned before the cycle swapped the buffers.
C5_FlushCovers ==
    [][(flPc = "finish" /\ flPc' = "top") =>
           \A l \in swapReturned : persistent_lsn_' >= l]_vars

\* a cycle that swapped after AppendLogRecord had returned LSNs completed
C5_Witness ==
    /\ cycleDone
    /\ flPc = "top"
    /\ swapReturned # {}
    /\ persistent_lsn_ >= 0
    /\ ~crashed

(***************************************************************************)
(* Properties of the extendible hash table.                                *)
(***************************************************************************)
\* no call is in progress
HashQuiet == \A t \in HashThreadIds : hPc[t] = "idle"

\* C6: the hash table is a map (single thread, bucket_size >= 1).  Between
\* calls, Find(k) returns the value of the most recent Insert(k, .) if k was
\* inserted and not removed since and false otherwise, and every Find and
\* Remove has returned accordingly.
C6_HashIsMap ==
    HashQuiet => /\ hashOk
                 /\ \A k \in HashKeys : Lookup(k) = hashRef[k]

\* C7: the hash table under concurrency on distinct keys.  Once the threads
\* have finished, all their calls having completed, no inserted entry is
\* lost, no removed entry reappears, and Find(k) returns what the calls on k
\* dictate; every Find and Remove has returned accordingly.
C7_HashConcurrent ==
    (HashQuiet /\ ~hashThrew) => /\ hashOk
                                 /\ \A k \in HashKeys : Lookup(k) = hashRef[k]

(***************************************************************************)
(* Properties of the B+ tree.                                              *)
(***************************************************************************)
\* the keys of treeRef in ascending order
RECURSIVE Ascending(_)
Ascending(keys) ==
    IF keys = {} THEN <<>>
    ELSE LET least == CHOOSE k \in keys : \A other \in keys : k <= other
         IN  <<least>> \o Ascending(keys \ {least})

\* the tree as the calls left it
TreeNow == Tree([key |-> -1, val |-> 0])

\* C8: B+ tree ordering.  After any sequence of Insert and Remove, the
\* iteration from Begin() with operator++ until isEnd() yields the keys
\* stored in the tree, each once, in strictly ascending order.
C8_IterationOrdered ==
    (~crashed /\ root_page_id_ # INVALID_PAGE_ID)
        => Begin(TreeNow) = Ascending({k \in TreeKeys : treeRef[k] # 0})

\* C9: B+ tree round trip.  After any sequence of Insert and Remove, for
\* every key k GetValue(k) returns true with v iff (k, v) was inserted by
\* a successful Insert and k was not removed since.
C9_GetValueRoundTrip ==
    (~crashed /\ root_page_id_ # INVALID_PAGE_ID)
        => \A k \in TreeKeys :
              GetValue(TreeNow, k) = [found |-> treeRef[k] # 0, val |-> treeRef[k]]

\* C10: B+ tree unique keys.  Insert(k, v') on a tree that already
\* contains k returns false and leaves the pages and root_page_id as they
\* were.
C10_DuplicateInsert ==
    [][(treeCalls' = treeCalls + 1 /\ tOp' = "Insert" /\ tDup' /\ ~crashed')
          => (tRet' = FALSE /\ pages' = pages /\ root_page_id_' = root_page_id_)]_vars


\* lruOrder lists the values in the replacer, the one whose most recent
\* Insert is the oldest first
\* C11: Victim on a non-empty replacer removes and returns the value whose
\* most recent Insert (its first, or a promoting one) is the oldest; on an
\* empty replacer it returns false and changes nothing.
C11_VictimOrder ==
    [][/\ (lruPc = "idle" /\ lruOp' = "Victim" /\ lruCalls' = lruCalls + 1) =>
              IF lruOrder = <<>>
              THEN /\ lruPc' = "idle"
                   /\ ~lruRet'.ok
                   /\ UNCHANGED <<queue, hashVars>>
              ELSE lruPc' = "remove"
       /\ (lruOp = "Victim" /\ lruPc = "remove" /\ lruPc' = "idle") =>
              /\ lruRet'.ok
              /\ lruRet'.value = Head(lruOrder)
              /\ queue' = Without(queue, Head(lruOrder))
              /\ Head(lruOrder) \notin Range(queue')]_vars

\* Victim has returned the older of two values, after the one inserted
\* first had been inserted again
C11_Witness ==
    /\ lruPc = "idle"
    /\ lruRet = LruResult("Victim", TRUE, 1)
    /\ queue = <<0>>
    /\ lruCalls = 4

\* C12: Size() is the number of distinct values inserted and not removed
\* since by Victim or Erase; Insert of a value that is present moves it to
\* the most recently used end and leaves Size() unchanged.
C12_LruSize ==
    [][/\ lruPc' = "idle" => Size' = Cardinality(Range(lruOrder'))
       /\ (lruOp = "Insert" /\ lruPc = "find" /\ lruPc' = "idle") =>
              /\ Size' = Size
              /\ Head(queue') = lruVal
              /\ Range(queue') = Range(queue)]_vars

\* an Insert of a present value has returned with two values in the replacer
C12_Witness ==
    /\ lruPc = "idle"
    /\ lruRet = LruResult("Insert", TRUE, 0)
    /\ queue = <<0, 1>>

\* C13: with rid held EXCLUSIVE by h, LockShared(txn, rid) of a younger txn
\* returns false at once, txn ABORTED and the wait list of rid unchanged; an
\* older txn blocks, and once Unlock of h has handed the lock to it, it
\* returns true, is in the granted list of rid, has rid in its shared lock
\* set, and the state of the wait list is SHARED.
C13_WaitDieShared ==
    [][\A t \in Txns, r \in RIDs :
         LET wl == record_lock_table[r] IN
         /\ ( /\ LockShared(t, r)
              /\ txnState[t] = "GROWING"
              /\ wl.present
              /\ wl.state = "EXCLUSIVE"
              /\ Len(wl.granted) = 1
              /\ Head(wl.granted) # t ) =>
                IF t > Head(wl.granted)
                THEN /\ pc'[t] = "idle"
                     /\ ret' = "false"
                     /\ txnState'[t] = "ABORTED"
                     /\ record_lock_table' = record_lock_table
                ELSE pc'[t] = "waitShared"
         /\ ( /\ pc[t] = "waitShared"
              /\ curRid[t] = r
              /\ future[t] = "true"
              /\ pc'[t] = "idle" ) =>
                /\ ret' = "true"
                /\ r \in shared_lock_set'[t]
                /\ record_lock_table'[r].present
                /\ t \in Range(record_lock_table'[r].granted)
                /\ record_lock_table'[r].state = "SHARED"]_vars

\* C14 as stated: LockExclusive(txn, rid) on a RID with a wait list: if any
\* holder is younger than txn (larger id), txn dies: ABORTED, false, no
\* blocking; otherwise, unless txn is the sole holder, txn is enqueued as
\* an EXCLUSIVE waiter and blocks.
C14_YoungerHolderKills ==
    [][\A t \in Txns, r \in RIDs :
         LET wl == record_lock_table[r] IN
         ( /\ LockExclusive(t, r)
           /\ txnState[t] = "GROWING"
           /\ wl.present ) =>
             IF \E i \in DOMAIN wl.granted : wl.granted[i] > t
             THEN /\ pc'[t] = "idle"
                  /\ ret' = "false"
                  /\ txnState'[t] = "ABORTED"
             ELSE wl.granted # <<t>> =>
                  /\ pc'[t] = "waitExclusive"
                  /\ record_lock_table'[r].wait_list =
                         Append(wl.wait_list, WaitItem(t, "EXCLUSIVE"))]_vars

\* C14, amended: LockExclusive(txn, rid) on a RID with a wait list: if any
\* holder is older than txn (smaller id; in an EXCLUSIVE wait list, one
\* that precedes txn itself in the granted list), txn dies: ABORTED, false,
\* no blocking; if no holder is older, then, unless txn is the sole holder
\* or a holder of the EXCLUSIVE lock, txn is enqueued as an EXCLUSIVE
\* waiter and blocks.
C14_ExclusiveWaitDie ==
    [][\A t \in Txns, r \in RIDs :
         LET wl == record_lock_table[r] IN
         ( /\ LockExclusive(t, r)
           /\ txnState[t] = "GROWING"
           /\ wl.present ) =>
             IF \E i \in DOMAIN wl.granted :
                   /\ wl.granted[i] < t
                   /\ wl.state = "EXCLUSIVE" =>
                          \A j \in 1..(i - 1) : wl.granted[j] # t
             THEN /\ pc'[t] = "idle"
                  /\ ret' = "false"
                  /\ txnState'[t] = "ABORTED"
                  /\ record_lock_table' = record_lock_table
             ELSE ( /\ \A i \in DOMAIN wl.granted : wl.granted[i] >= t
                    /\ wl.granted # <<t>>
                    /\ ~(wl.state = "EXCLUSIVE" /\ t \in Range(wl.granted)) ) =>
                  /\ pc'[t] = "waitExclusive"
                  /\ txnState'[t] = "GROWING"
                  /\ record_lock_table'[r].wait_list =
                         Append(wl.wait_list, WaitItem(t, "EXCLUSIVE"))]_vars

\* with T1 holding the lock, LockExclusive of the younger T2 has died and
\* LockExclusive of the older T0 is blocked
C14_Witness ==
    /\ lockCalls = 3
    /\ record_lock_table[1] =
           [present |-> TRUE, state |-> "SHARED", granted |-> <<1>>,
            wait_list |-> <<WaitItem(0, "EXCLUSIVE")>>]
    /\ pc[0] = "waitExclusive"
    /\ txnState[2] = "ABORTED"
    /\ ret = "false"

\* C15: LockExclusive(txn, rid) when txn is the sole member of the granted
\* list of rid returns true without blocking and without aborting txn, be
\* the state of the wait list EXCLUSIVE or SHARED.
C15_SoleHolderSucceeds ==
    [][\A t \in Txns, r \in RIDs :
         ( /\ LockExclusive(t, r)
           /\ txnState[t] = "GROWING"
           /\ record_lock_table[r].present
           /\ record_lock_table[r].granted = <<t>> ) =>
             /\ pc'[t] = "idle"
             /\ ret' = "true"
             /\ txnState'[t] = "GROWING"]_vars

\* C16: LockShared, LockExclusive and LockUpgrade of an ABORTED or COMMITTED
\* transaction return false and leave its state, its lock sets and the lock
\* table unchanged; of a SHRINKING transaction they return false, set it
\* ABORTED and leave the lock table unchanged.
C16_ValidityCheck ==
    [][\A t \in Txns, r \in RIDs :
         ( /\ LockShared(t, r) \/ LockExclusive(t, r) \/ LockUpgrade(t, r)
           /\ txnState[t] # "GROWING" ) =>
             /\ pc'[t] = "idle"
             /\ ret' = "false"
             /\ record_lock_table' = record_lock_table
             /\ IF txnState[t] = "SHRINKING"
                THEN txnState'[t] = "ABORTED"
                ELSE UNCHANGED <<txnState, shared_lock_set, exclusive_lock_set>>]_vars

\* a transaction that had released its only lock has asked for a lock again
C16_Witness ==
    /\ lockCalls = 3
    /\ ~strict_2PL_
    /\ ~record_lock_table[1].present
    /\ txnState[0] = "ABORTED"
    /\ ret = "false"

\* C17: in strict mode Unlock of a GROWING or SHRINKING transaction returns
\* false and changes nothing; so no transaction leaves a granted list
\* before it is COMMITTED or ABORTED, on any path, LockUpgrade included.
C17_StrictTwoPhase ==
    [][strict_2PL_ =>
         \A t \in Txns, r \in RIDs :
           /\ ( /\ Unlock(t, r) \/ (UpgradeUnlock(t) /\ curRid[t] = r)
                /\ txnState[t] \in {"GROWING", "SHRINKING"} ) =>
                  /\ pc'[t] = "idle"
                  /\ ret' = "false"
                  /\ UNCHANGED <<record_lock_table, txnState, shared_lock_set,
                                 exclusive_lock_set, future>>
           /\ ( /\ record_lock_table[r].present
                /\ t \in Range(record_lock_table[r].granted)
                /\ \/ ~record_lock_table'[r].present
                   \/ t \notin Range(record_lock_table'[r].granted) ) =>
                  txnState[t] \in {"COMMITTED", "ABORTED"}]_vars

\* in strict mode a GROWING transaction that holds the lock has called
\* Unlock, or LockUpgrade and so Unlock, in vain
C17_Witness ==
    /\ strict_2PL_
    /\ lockCalls = 2
    /\ record_lock_table[1].present
    /\ record_lock_table[1].granted = <<0>>
    /\ \A t \in Txns : txnState[t] = "GROWING" /\ pc[t] = "idle"
    /\ ret = "false"

\* C18: in non-strict mode a successful Unlock of a GROWING transaction
\* makes it SHRINKING, and no LockShared, LockExclusive or LockUpgrade of a
\* transaction that has left GROWING returns true; in strict mode a
\* successful Unlock does not change the state; a state only moves forward
\* along GROWING, SHRINKING, COMMITTED / ABORTED.
C18_TwoPhaseRule ==
    [][\A t \in Txns :
         /\ \A r \in RIDs :
              ( /\ \/ Unlock(t, r) /\ ret' = "true"
                   \/ UpgradeUnlock(t) /\ curRid[t] = r /\ pc'[t] = "upgradeLock"
                /\ txnState[t] = "GROWING" ) =>
                  txnState'[t] = IF strict_2PL_ THEN "GROWING" ELSE "SHRINKING"
         /\ \A r \in RIDs :
              (strict_2PL_ /\ Unlock(t, r) /\ ret' = "true") =>
                  txnState'[t] = txnState[t]
         /\ ( /\ txnState[t] # "GROWING"
              /\ pc'[t] = "idle"
              /\ \/ \E r \in RIDs : LockShared(t, r)
                 \/ \E r \in RIDs : LockExclusive(t, r)
                 \/ \E r \in RIDs : LockUpgrade(t, r)
                 \/ ResumeShared(t)
                 \/ ResumeExclusive(t)
                 \/ UpgradeLock(t) ) => ret' # "true"
         /\ txnState'[t] # txnState[t] =>
              <<txnState[t], txnState'[t]>> \in
                  {<<"GROWING", "SHRINKING">>, <<"GROWING", "ABORTED">>,
                   <<"GROWING", "COMMITTED">>, <<"SHRINKING", "ABORTED">>,
                   <<"SHRINKING", "COMMITTED">>}]_vars

\* in non-strict mode a transaction has released its lock
C18_Witness ==
    /\ ~strict_2PL_
    /\ lockCalls = 2
    /\ ~record_lock_table[1].present
    /\ txnState[0] = "SHRINKING"
    /\ ret = "true"

\* C19: LockUpgrade(txn, rid) of a GROWING transaction that is the only
\* holder of a SHARED lock on rid, with no waiters and no other request
\* under way, returns true, with txn the sole member of the granted list,
\* the state EXCLUSIVE, rid in the exclusive lock set of txn and txn still
\* GROWING, in strict and in non-strict mode: its Unlock goes through
\* without a change of state and its LockExclusive then takes the lock.
C19_UpgradeSoleHolder ==
    [][\A t \in Txns, r \in RIDs :
         LET wl == record_lock_table[r]
             alone == \A u \in Txns \ {t} : pc[u] = "idle"
         IN
         /\ ( /\ UpgradeUnlock(t)
              /\ curRid[t] = r
              /\ alone
              /\ txnState[t] = "GROWING"
              /\ wl.present
              /\ wl.state = "SHARED"
              /\ wl.granted = <<t>>
              /\ wl.wait_list = <<>> ) =>
                /\ pc'[t] = "upgradeLock"
                /\ txnState'[t] = "GROWING"
         /\ ( /\ UpgradeLock(t)
              /\ curRid[t] = r
              /\ alone
              /\ ~wl.present ) =>
                /\ pc'[t] = "idle"
                /\ ret' = "true"
                /\ txnState'[t] = "GROWING"
                /\ record_lock_table'[r] = WaitList(t, "EXCLUSIVE")
                /\ r \in exclusive_lock_set'[t]]_vars

\* C20: with the flush thread running and N AppendLogRecord calls returned,
\* TriggerFlush followed by WaitUntilBgTaskFinish returns only after the N
\* records were written, and persistent_lsn_ is then the LSN of the N-th
\* record, whatever the flush thread was doing at the time of the trigger
\* (no record is appended between the trigger and the return).
C20_FlushAndWait ==
    [][( /\ flushCall.pc = "waitBg"
         /\ flushCall'.pc = "done"
         /\ flush_thread_on_
         /\ flushCall.lsn >= 0
         /\ next_lsn_ = flushCall.lsn + 1
         /\ appPc = "idle" ) =>
           /\ \A l \in 0..flushCall.lsn : l \in Range(Lsns(written))
           /\ persistent_lsn_' = flushCall.lsn]_vars

\* C21: with the flush thread running and no record larger than
\* LOG_BUFFER_SIZE, an AppendLogRecord that found no room resumes with
\* log_buffer_size_ = 0, and whenever a record is serialized it ends within
\* LOG_BUFFER_SIZE.
C21_BoundedLogBuffer ==
    [][/\ (appPc = "relock" /\ appPc' # "relock") => log_buffer_size_ = 0
       /\ Len(log_buffer') > Len(log_buffer) =>
              BufSize(log_buffer') <= LOG_BUFFER_SIZE]_vars

\* C22: AppendLogRecord of a record of any type that finds room assigns the
\* next LSN, appends the record to log_buffer, adds its size to
\* log_buffer_size_ and returns the LSN; no assertion fails.
C22_EveryRecordType ==
    [][\A t \in WalThreadIds, size \in 1..MaxRecordSize, type \in RecordTypes :
         ( /\ AppendLogRecord(t, size, type)
           /\ log_buffer_size_ + size <= LOG_BUFFER_SIZE ) =>
             /\ ~crashed'
             /\ next_lsn_' = next_lsn_ + 1
             /\ log_buffer_size_' = log_buffer_size_ + size
             /\ Last(log_buffer').lsn = next_lsn_
             /\ returned' = returned \cup {next_lsn_}]_vars

\* C23: once StopFlushThread has cleared flush_thread_on_, the flush thread
\* leaves its loop and the join returns, whatever the flush thread was
\* doing (no AppendLogRecord is under way).
C23_StopTerminates ==
    (stopPc = "trigger" /\ appPc = "idle") ~> (stopPc = "idle" /\ flPc = "off")

\* the entries stored in the buckets the directory references
HashEntries ==
    {e \in Range(buckets_) \X HashKeys : bucketTab[e[1]].entries_[e[2]] # NoVal}

\* C24: for every bucket_size >= 1, an Insert(k, v2) of a key the table
\* holds neither throws nor crashes at any step, and when it returns
\* Find(k) yields v2 and the number of entries is what it was, also when
\* the bucket holding k is full.
C24_InsertOverwrites ==
    [][\A k \in HashKeys, v \in HashVals :
         ( /\ hOp[1] = "Insert" /\ hPc[1] # "idle"
           /\ hKey[1] = k /\ hVal[1] = v
           /\ Lookup(k) # NoVal ) =>
             /\ ~hashThrew' /\ ~crashed'
             /\ hPc'[1] = "idle" =>
                   /\ Lookup(k)' = v
                   /\ Cardinality(HashEntries') = Cardinality(HashEntries)]_vars

\* the slots of the directory that reference bucket b
SlotsOf(b) == {i \in DOMAIN buckets_ : buckets_[i] = b}

\* C25: between calls the directory has 2^global_depth slots, every
\* bucket it references has a local depth d <= global_depth and is
\* referenced by exactly the 2^(global_depth - d) slots that agree on their
\* low d bits, and every stored key lies in the bucket of the slot
\* hash(key) & (2^global_depth - 1).
C25_DirectoryInvariant ==
    HashQuiet =>
        /\ Len(buckets_) = Pow2(gloable_depth_)
        /\ \A b \in Range(buckets_) :
              LET d == bucketTab[b].local_depth_
              IN  /\ d <= gloable_depth_
                  /\ Cardinality(SlotsOf(b)) = Pow2(gloable_depth_ - d)
                  /\ \A i \in SlotsOf(b), j \in DOMAIN buckets_ :
                        (j \in SlotsOf(b)) <=> ((j - 1) % Pow2(d) = (i - 1) % Pow2(d))
        /\ \A e \in HashEntries : SlotBucket(e[2]) = e[1]

\* between calls, after splits that left a bucket shallower than the
\* directory, with entries stored
C25_Witness ==
    /\ HashQuiet
    /\ ~hashThrew
    /\ gloable_depth_ >= 2
    /\ \E b \in Range(buckets_) : bucketTab[b].local_depth_ < gloable_depth_
    /\ Cardinality(HashEntries) >= 2

\* C26: between calls GetNumBuckets() is the number of distinct buckets the
\* directory references, also after concurrent Inserts that overflow the
\* same bucket; with bucket_size 2, once 0, 1 and 2 are stored in a table
\* that held nothing else, the global depth is at least 1.
C26_NumBuckets ==
    HashQuiet =>
        /\ GetNumBuckets = Cardinality(Range(buckets_))
        /\ ( /\ bucket_size_ = 2
             /\ \A k \in HashKeys : Lookup(k) # NoVal <=> k \in {0, 1, 2} )
               => gloable_depth_ >= 1

\* the pages of the tree below page id, page id included
RECURSIVE NodesBelow(_, _)
NodesBelow(id, fuel) ==
    IF id \notin DOMAIN pages \/ fuel = 0 THEN {}
    ELSE IF pages[id].leaf THEN {id}
    ELSE {id} \cup UNION {NodesBelow(pages[id].arr[i].val, fuel - 1) :
                             i \in 1..Len(pages[id].arr)}

\* C27: after any sequence of Insert and Remove every node of the tree
\* other than the root stores s entries with min_size <= s < max_size.
C27_NodeSizes ==
    (~crashed /\ root_page_id_ # INVALID_PAGE_ID) =>
        \A id \in NodesBelow(root_page_id_, Len(pages)) \ {root_page_id_} :
            /\ GetMinSize <= Len(pages[id].arr)
            /\ Len(pages[id].arr) < max_size

\* C30: an Unlock that removes the last member of the granted list while
\* the wait list is not empty completes the last-enqueued waiter W with
\* true, removes it and gives the list W's target state; every remaining
\* waiter younger than W is completed with false and the future of every
\* remaining older waiter is left alone.  When the granted list stays
\* non-empty nothing is woken, and when both lists are empty the entry of
\* the RID leaves the table.
C30_UnlockHandOver ==
    [][\A t \in Txns, r \in RIDs :
         LET wl == record_lock_table[r] IN
         ( /\ Unlock(t, r)
           /\ UnlockAllowed(t)
           /\ wl.present
           /\ t \in Range(wl.granted)
           /\ ~crashed' ) =>
             LET left == EraseFirst(wl.granted, t) IN
             IF left # <<>>
             THEN /\ future' = future
                  /\ record_lock_table' = [record_lock_table EXCEPT ![r].granted = left]
             ELSE IF wl.wait_list = <<>>
             THEN record_lock_table'[r] = NoList
             ELSE LET W == Last(wl.wait_list)
                      rest == Front(wl.wait_list)
                  IN  /\ ret' = "true"
                      /\ future'[W.transaction] = "true"
                      /\ record_lock_table'[r] =
                             [present |-> TRUE, state |-> W.target_state,
                              granted |-> <<>>, wait_list |-> rest]
                      /\ \A i \in DOMAIN rest :
                            LET u == rest[i].transaction IN
                            IF u > W.transaction
                            THEN future'[u] = "false"
                            ELSE u < W.transaction => future'[u] = future[u]]_vars

\* C29: a transaction blocked in the wait list of an RID, not a holder
\* itself, is older than every transaction in the granted list of that
\* RID, also while a woken waiter has not yet added itself to the granted
\* list.
C29_WaitDieInvariant ==
    \A r \in RIDs :
        LET wl == record_lock_table[r] IN
        wl.present =>
            \A i \in DOMAIN wl.wait_list, g \in Range(wl.granted) :
                LET w == wl.wait_list[i].transaction IN
                ( /\ w \notin Range(wl.granted)
                  /\ pc[w] \in WaitPcs
                  /\ curRid[w] = r
                  /\ future[w] = "none" ) => w < g

\* a waiter of rid completed with true that has not yet added itself to
\* the granted list
Woken(rid) ==
    \E u \in Txns : pc[u] \in WaitPcs /\ curRid[u] = rid /\ future[u] = "true"

\* t is blocked in the wait list of rid while the granted list is empty and
\* no woken waiter is on its way into it
Stranded(t, rid) ==
    /\ t \in Blocked
    /\ curRid[t] = rid
    /\ ~orphan[t]
    /\ record_lock_table[rid].present
    /\ record_lock_table[rid].granted = <<>>
    /\ ~Woken(rid)

\* C28: no waiter stays blocked for ever once the granted list of its RID
\* is empty.  A stranded waiter is woken by no Unlock, as no transaction
\* holds the lock and none is on its way to hold it, so that with fair
\* scheduling and no further request it is blocked for ever: no reachable
\* state strands a transaction that is not aborted.
C28_WaitDieProgress ==
    \A t \in Txns, rid \in RIDs :
        ~ (Stranded(t, rid) /\ txnState[t] # "ABORTED" /\ ~crashed)

\* C31: every element of the wait list of an RID belongs to a transaction
\* that is blocked on that RID and whose promise has not been completed;
\* a waiter completed with false is no longer in the wait list.
C31_WaitListLive ==
    \A r \in RIDs :
        record_lock_table[r].present =>
            \A i \in DOMAIN record_lock_table[r].wait_list :
                LET u == record_lock_table[r].wait_list[i].transaction IN
                /\ pc[u] \in WaitPcs
                /\ curRid[u] = r
                /\ future[u] = "none"

\* C32: in every cycle of the flush thread whose records all lie within
\* the buffer, also one that swapped an empty log buffer, the LSN of the last record of the flushed buffer is the
\* next_lsn_ - 1 captured at the swap, the assertion of the cycle holds,
\* persistent_lsn_ becomes that last LSN and does not decrease.
C32_FlushBookkeeping ==
    [][(FlusherFinish /\ \A i \in DOMAIN flush_buffer : flush_buffer[i].intact) =>
          /\ lastLsn(flush_buffer, INVALID_LSN) = current_lsn
          /\ ~crashed'
          /\ flPc' = "top" =>
                /\ persistent_lsn_' = lastLsn(flush_buffer, INVALID_LSN)
                /\ persistent_lsn_' >= persistent_lsn_]_vars

\* C33: no bucket holds more than bucket_size_ entries, also when threads
\* insert distinct keys that map to one bucket while it is split.
C33_BucketCapacity ==
    \A b \in DOMAIN bucketTab : EntryCount(bucketTab[b]) <= bucket_size_

\* C34: a step of Find, Remove or Insert that reads or changes the entries
\* of a bucket (the bodies of the three calls, the copy of the entries in
\* SplitBucket, the AddEntry after a split) is taken by a thread that holds
\* the latch of that bucket, and the directory slot of the key references
\* that bucket.
C34_BucketStable ==
    [][\A t \in HashThreadIds :
          ( \/ FindBody(t) \/ RemoveBody(t) \/ InsertBody(t)
            \/ Split2(t) \/ AddAfterSplit(t) ) =>
              /\ hHeld[t] = hBucket[t]
              /\ SlotBucket(hKey[t]) = hBucket[t]]_vars

\* the steps of SplitBucket that lock latch_, the directory mutex: line 170
\* (taken when the depths are equal, line 168) and line 181 (taken when
\* the global depth is greater, line 180)
TakesDirectoryLatch(t) ==
    \/ Split1(t) /\ gloable_depth_ = bucketTab[hBucket[t]].local_depth_
    \/ Split2(t) /\ gloable_depth_ > bucketTab[hBucket[t]].local_depth_

\* C35 as stated: no thread acquires the directory mutex while it holds
\* a bucket mutex; a thread that splits has released its bucket mutex
\* before it takes the directory mutex.
C35_LockOrdering ==
    [][\A t \in HashThreadIds : TakesDirectoryLatch(t) => hHeld[t] = 0]_vars

\* C35 amended: every thread that acquires the directory mutex holds a
\* bucket mutex at that moment, the one Insert locked through
\* LockOperateBucket; Insert keeps it until it returns.
C35_DirectoryUnderBucket ==
    [][\A t \in HashThreadIds :
          TakesDirectoryLatch(t) =>
              /\ hHeld[t] # 0
              /\ bucketTab[hHeld[t]].latch = t
              /\ hHeld'[t] # 0 => hHeld'[t] = hHeld[t]]_vars

\* a thread has split a bucket under the directory mutex and still holds
\* the bucket mutex it took
C35_Witness ==
    \E t \in HashThreadIds :
        /\ hPc[t] = "split3"
        /\ bucket_number > 1
        /\ hHeld[t] # 0
        /\ bucketTab[hHeld[t]].latch = t

C37_LatchCrabbing ==
    \A k \in TreeKeys :
        LET calls == FindLeafPageCalls(TreeNow, k)
            leaf == FindLeafPage(TreeNow, root_page_id_, k, FALSE, Len(pages))
        IN  (~crashed /\ root_page_id_ # INVALID_PAGE_ID /\ leaf # 0) =>
                /\ LatchCount(calls, leaf) = 1
                /\ \A n \in DOMAIN calls :
                       calls[n][1] = "Fetch" =>
                           \E m \in DOMAIN calls :
                               /\ m > n
                               /\ calls[m][1] \in {"RLatch", "WLatch"}
                               /\ calls[m][2] = calls[n][2]

\* every UnpinPage of the calls finds its page pinned, and the calls leave
\* no page pinned
Balanced(calls) ==
    /\ \A n \in DOMAIN calls :
           calls[n][1] = "Unpin" => PinCount(calls, n - 1, calls[n][2]) > 0
    /\ \A n \in DOMAIN calls : PinCount(calls, Len(calls), calls[n][2]) = 0

\* C38: within a completed GetValue or Insert, on every path (a leaf
\* split and a split of an internal page among them), each FetchPage and
\* NewPage is matched by one UnpinPage, no page is left pinned and
\* UnpinPage is never called on a page with pin count 0.
C38_PinBalance ==
    /\ [](\A k \in TreeKeys :
            (~crashed /\ root_page_id_ # INVALID_PAGE_ID
               /\ FindLeafPage(TreeNow, root_page_id_, k, FALSE, Len(pages)) # 0)
                => Balanced(GetValueCalls(TreeNow, k)))
    /\ [][\A k \in TreeKeys, v \in TreeVals, junk \in JunkEntries :
            LET R == InsertTree(Tree(junk), k, v).tree
            IN  (TreeInsert(k, v) /\ ~crashed' /\ R.st = "ok" /\ pages' = R.pages)
                    => Balanced(InsertCalls(Tree(junk), k, v))]_vars

\* Split of the node id of tree T leaves the first half of its entries,
\* rounded down, in the node and places the others in their order at
\* array[0 ...] of the new node; the sizes add up, the new node has the
\* parent of the node, and a leaf is linked to the new leaf, which takes
\* over its next page
SplitConserves(T, id) ==
    LET node == T.pages[id]
        s == Len(node.arr)
        R == Split(T, id)
        N == R.pages[id]
        S == R.pages[Len(R.pages)]
    IN  /\ N.arr = SubSeq(node.arr, 1, s \div 2)
        /\ S.arr = SubSeq(node.arr, (s \div 2) + 1, s)
        /\ Len(N.arr) + Len(S.arr) = s
        /\ S.parent = node.parent
        /\ node.leaf => (S.next = node.next /\ N.next = Len(R.pages))

\* C39: the Split of a leaf that an Insert has filled, and the Split of
\* its parent when the new leaf fills it, conserve the entries.
C39_SplitConserves ==
    [][\A k \in TreeKeys, v \in TreeVals, junk \in JunkEntries :
          LET T == Tree(junk)
              leaf == FindLeafPage(T, T.root, k, FALSE, Len(T.pages))
              T1 == [T EXCEPT !.pages[leaf].arr = LeafInsert(@, k, v)]
              T2 == Split(T1, leaf)
              pid == T2.pages[leaf].parent
              parr == T2.pages[pid].arr
              index == ValueIndex(parr, leaf)
              T3 == [T2 EXCEPT !.pages[pid].arr =
                        SubSeq(parr, 1, index + 1)
                        \o <<[key |-> Slot(T2.pages[Len(T2.pages)].arr, 0, junk).key,
                              val |-> Len(T2.pages)]>>
                        \o SubSeq(parr, index + 2, Len(parr))]
          IN  (/\ TreeInsert(k, v)
               /\ T.root # INVALID_PAGE_ID
               /\ leaf # 0
               /\ ~LeafLookup(T.pages[leaf].arr, k).found
               /\ Len(T1.pages[leaf].arr) >= max_size) =>
                  /\ SplitConserves(T1, leaf)
                  /\ (pid # INVALID_PAGE_ID /\ index >= 0
                        /\ Len(T3.pages[pid].arr) >= max_size) =>
                         SplitConserves(T3, pid)]_vars

\* the keys of the entries ascend strictly
SortedLeaf(arr) == \A i, j \in DOMAIN arr : i < j => arr[i].key < arr[j].key

\* C40: the Insert of a leaf page, called by Insert of the tree with a key
\* the sorted leaf does not hold, makes the size one more and leaves the
\* entries strictly ascending, the old ones and the new one, wherever the
\* key falls among them.
C40_LeafInsertOrder ==
    [][\A k \in TreeKeys, v \in TreeVals, junk \in JunkEntries :
          LET T == Tree(junk)
              leaf == FindLeafPage(T, T.root, k, FALSE, Len(T.pages))
              old == T.pages[leaf].arr
              new == LeafInsert(old, k, v)
          IN  (/\ TreeInsert(k, v)
               /\ T.root # INVALID_PAGE_ID
               /\ leaf # 0
               /\ SortedLeaf(old)
               /\ ~LeafLookup(old, k).found) =>
                  /\ Len(new) = Len(old) + 1
                  /\ SortedLeaf(new)
                  /\ Range(new) = Range(old) \cup {[key |-> k, val |-> v]}]_vars
=============================================================================
